---- MODULE Spec2Model ----
(***************************************************************************)
(* Model of the LinkedIn session state machine (src/linkedin_auth.py) and  *)
(* of the jobs section extractors (src/authenticated_linkedin_scraper.py,  *)
(* src/linkedin_enhanced_scraper.py).                                      *)
(*                                                                         *)
(* Python str values are TLA+ strings; TLC evaluates Len, SubSeq, Head,    *)
(* Tail and \o on them character by character, so substring tests, prefix  *)
(* tests, lower() and the regular expressions are computed on the text.    *)
(***************************************************************************)
EXTENDS Integers, Sequences, FiniteSets, TLC

VARIABLES
    auth_state,   \* linkedin_auth.auth_state: a dict, key -> value
    cookies,      \* linkedin_auth.session.cookies: names of the stored cookies
    call          \* the last completed call: operation, inputs it drew, result

vars == <<auth_state, cookies, call>>

----------------------------------------------------------------------------
(* Python values and str operations *)

\* Python's None, where a str may also stand
NoneValue == "<None>"

\* truth value of a str-or-None argument: None and "" are falsy
Falsy(v) == v = NoneValue \/ v = ""

UPPERCASE == "ABCDEFGHIJKLMNOPQRSTUVWXYZ"

LOWERCASE == "abcdefghijklmnopqrstuvwxyz"

\* str.lower() on the letters: upper-case letter -> lower-case letter
LowerOf ==
    [c \in {SubSeq(UPPERCASE, i, i) : i \in 1..Len(UPPERCASE)} |->
        LET i == CHOOSE i \in 1..Len(UPPERCASE) : SubSeq(UPPERCASE, i, i) = c
        IN  SubSeq(LOWERCASE, i, i)]

\* str.lower() on one character
LowerChar(c) == IF c \in DOMAIN LowerOf THEN LowerOf[c] ELSE c

RECURSIVE Lower(_)
\* str.lower(): each character lowered, the halves joined
Lower(s) ==
    IF Len(s) <= 1 THEN LowerChar(s)
    ELSE LET h == Len(s) \div 2
         IN  Lower(SubSeq(s, 1, h)) \o Lower(SubSeq(s, h + 1, Len(s)))

\* s[i:].startswith(p), i counted from 1
StartsAt(s, i, p) ==
    /\ i >= 1
    /\ i + Len(p) - 1 <= Len(s)
    /\ SubSeq(s, i, i + Len(p) - 1) = p

\* s.startswith(p)
StartsWith(s, p) == StartsAt(s, 1, p)

\* s.endswith(p)
EndsWith(s, p) == StartsAt(s, Len(s) - Len(p) + 1, p)

\* the Python test `sub in s`
Contains(s, sub) == \E i \in 1..(Len(s) - Len(sub) + 1) : StartsAt(s, i, sub)

\* the function f itself; comparing it tabulates it, so that TLC computes its
\* values once instead of at each application
Tabulated(f) == IF f = f THEN f ELSE f

\* d[k] = v on a dict
DictSet(d, k, v) == [x \in (DOMAIN d) \cup {k} |-> IF x = k THEN v ELSE d[x]]

\* del d[k] on a dict
DictDel(d, k) == [x \in (DOMAIN d) \ {k} |-> d[x]]

\* d.get(k, default)
DictGet(d, k, default) == IF k \in DOMAIN d THEN d[k] ELSE default

----------------------------------------------------------------------------
(* linkedin_auth: messages written to auth_state['error'] *)

ERR_EMPTY == "Empty credentials provided"

ERR_NO_CREDENTIALS == "No credentials provided"

ERR_CSRF == "LinkedIn login form could not be processed"

ERR_TWO_FACTOR == "LinkedIn requires two-factor authentication - this is not currently supported"

ERR_CHECKPOINT == "LinkedIn security checkpoint detected - please log in manually on LinkedIn.com first"

ERR_CAPTCHA == "LinkedIn is requiring CAPTCHA verification - please log in manually on LinkedIn.com first"

ERR_RATE_LIMIT == "LinkedIn rate limiting detected - please try again later"

ERR_UNCLASSIFIED == "LinkedIn authentication failed - LinkedIn may be blocking automated logins for security"

\* f"Authentication error: {str(e)}"
ErrException(e) == "Authentication error: " \o e

----------------------------------------------------------------------------
(* Inputs of the session operations *)

\* usernames a caller passes to set_credentials
Usernames == {"", "alice@example.com", "bob@example.com"}

\* passwords a caller passes to set_credentials
Passwords == {"", "pw-a", "pw-b"}

\* exceptions session.get and session.post raise
RequestExceptions == {"ConnectionError"}

\* a request that raised
Raised(e) == [raises |-> TRUE, exc |-> e]

\* bodies of https://www.linkedin.com/login
LoginPages ==
    { "<input name=\"loginCsrfParam\" value=\"ajax:42\">",
      "<input name=\"loginCsrfParam\"\n\t value=\"tok\"/><form action=\"login\">",
      "<input name=\"loginCsrfParam\" value=\"\">",
      "<input name=\"loginCsrfParam\"value=\"ajax:42\">",
      "<html>Too many requests</html>" }

\* answers of session.get('https://www.linkedin.com/login')
LoginPageAnswers ==
    {Raised(e) : e \in RequestExceptions}
    \cup {[raises |-> FALSE, text |-> t, set_cookies |-> {"JSESSIONID"}] : t \in LoginPages}
    \cup {[raises |-> FALSE, text |-> "<html>Too many requests</html>", set_cookies |-> {}]}

\* landing URLs of the login submission
LandingUrls ==
    { "https://www.linkedin.com/feed/",
      "https://www.linkedin.com/checkpoint/lg/login?session_redirect=feed",
      "https://www.linkedin.com/checkpoint/challenge?next=feed",
      "https://www.linkedin.com/checkpoint/challenge/AgE1",
      "https://www.linkedin.com/Checkpoint/Challenge/AgE1",
      "https://www.linkedin.com/checkpoint/challenge/two-step-verification",
      "https://www.linkedin.com/two-step-verification?captcha=1",
      "https://www.linkedin.com/checkpoint/challenge/captcha",
      "https://www.linkedin.com/CAPTCHA?rate=1",
      "https://www.linkedin.com/checkpoint/lg/login-submit",
      "https://www.linkedin.com/uas/login?corporate=1",
      "https://www.linkedin.com/uas/login?LIMIT=1",
      "https://www.linkedin.com/uas/login" }

\* login responses: landing URL and body
LoginResponses ==
    {[url |-> u, text |-> ""] : u \in LandingUrls}
    \cup {[url |-> "https://www.linkedin.com/uas/login", text |-> "Please solve the CAPTCHA"],
          [url |-> "https://www.linkedin.com/uas/login?LIMIT=1", text |-> "captcha"]}

\* answers of session.post(login-submit)
LoginSubmitAnswers ==
    {Raised(e) : e \in RequestExceptions}
    \cup {[raises |-> FALSE, url |-> r.url, text |-> r.text,
           set_cookies |-> IF r.url = "https://www.linkedin.com/feed/" THEN {"li_at"} ELSE {}] :
            r \in LoginResponses}

\* URLs a caller passes to fetch_url_with_auth
FetchUrls == {"www.linkedin.com/company/acme", "https://www.linkedin.com/company/acme/jobs"}

\* status codes of the fetched page
StatusCodes == {200, 204, 206, 403, 500}

\* answers of session.get(url) in fetch_url_with_auth
FetchAnswers ==
    {Raised("ConnectionError")}
    \cup {[raises |-> FALSE, status_code |-> c, text |-> t, set_cookies |-> {}] :
            c \in StatusCodes, t \in {"", "<html>Acme</html>"}}

----------------------------------------------------------------------------
(* linkedin_auth: the state after import *)

\* auth_state as the module creates it: no 'password' key
InitialAuthState == [logged_in |-> FALSE, username |-> NoneValue, error |-> NoneValue]

----------------------------------------------------------------------------
(* linkedin_auth.set_credentials *)

\* the guard `not username or not password`
EmptyCredentials(username, password) == Falsy(username) \/ Falsy(password)

\* auth_state after the rejection branch
SetCredentialsRejected(st) == DictSet(st, "error", ERR_EMPTY)

\* SetCredentialsStored with a slip: the prior error is left in place
SetCredentialsStored_KeepsError(st, username, password) ==
    DictSet(DictSet(st, "username", username), "password", password)

\* SetCredentialsStored with a slip: storing credentials ends the login
SetCredentialsStored_EndsLogin(st, username, password) ==
    DictSet(DictSet(DictSet(DictSet(st, "username", username), "password", password),
                    "error", NoneValue),
            "logged_in", FALSE)

\* auth_state after the storing branch
SetCredentialsStored(st, username, password) ==
    DictSet(DictSet(DictSet(st, "username", username), "password", password),
            "error", NoneValue)

----------------------------------------------------------------------------
(* linkedin_auth.clear_credentials *)

\* ClearedAuthState with a slip: the password is not deleted
ClearedAuthState_KeepsPassword(st) ==
    DictSet(DictSet(DictSet(st, "logged_in", FALSE), "username", NoneValue),
            "error", NoneValue)

\* auth_state after clear_credentials
ClearedAuthState(st) ==
    LET s1 == DictSet(DictSet(st, "logged_in", FALSE), "username", NoneValue)
        s2 == IF "password" \in DOMAIN s1 THEN DictDel(s1, "password") ELSE s1
    IN  DictSet(s2, "error", NoneValue)

\* session.cookies after session.cookies.clear()
ClearedCookies(ck) == {}

----------------------------------------------------------------------------
(* linkedin_auth.authenticate *)

\* HasCredentials with a slip: only the username key is looked for
HasCredentials_UsernameOnly(st) == "username" \in DOMAIN st

\* the guard of the early return: both keys must be in auth_state
HasCredentials(st) == "username" \in DOMAIN st /\ "password" \in DOMAIN st

CSRF_NAME == "name=\"loginCsrfParam\""

CSRF_VALUE_OPEN == "value=\""

\* the characters \s matches
WHITESPACE == {" ", "\t", "\n", "\r", "\f"}

RECURSIVE SkipWhitespace(_, _)
\* first position at or after j that holds no whitespace
SkipWhitespace(s, j) ==
    IF j <= Len(s) /\ SubSeq(s, j, j) \in WHITESPACE
    THEN SkipWhitespace(s, j + 1) ELSE j

RECURSIVE SkipNonQuote(_, _)
\* first position at or after j that holds a double quote (Len(s)+1 if none)
SkipNonQuote(s, j) ==
    IF j <= Len(s) /\ SubSeq(s, j, j) # "\""
    THEN SkipNonQuote(s, j + 1) ELSE j

\* group(1) of name="loginCsrfParam"\s+value="([^"]+)" matched at position i
CsrfGroupAt(s, i) ==
    IF ~StartsAt(s, i, CSRF_NAME) THEN NoneValue
    ELSE LET j == i + Len(CSRF_NAME)
             k == SkipWhitespace(s, j)
             v == k + Len(CSRF_VALUE_OPEN)
             q == SkipNonQuote(s, v)
         IN  IF k > j /\ StartsAt(s, k, CSRF_VALUE_OPEN) /\ q > v /\ q <= Len(s)
             THEN SubSeq(s, v, q - 1)
             ELSE NoneValue

\* csrf_token: the group of the leftmost match of re.search, None without a match
ExtractCsrfToken(text) ==
    LET hits == {i \in 1..Len(text) : CsrfGroupAt(text, i) # NoneValue}
    IN  IF hits = {} THEN NoneValue
        ELSE CsrfGroupAt(text, CHOOSE i \in hits : \A h \in hits : i <= h)

\* ExtractCsrfToken on the login pages, computed once
CsrfTokenOf == [t \in LoginPages |-> ExtractCsrfToken(t)]

LOGIN_FEED_PREFIX == "https://www.linkedin.com/feed/"

\* LoginSucceeded with a slip: only the prefix test is made
LoginSucceeded_PrefixOnly(url) == StartsWith(url, LOGIN_FEED_PREFIX)

\* the success test on login_response.url
LoginSucceeded(url) == StartsWith(url, LOGIN_FEED_PREFIX) \/ Contains(url, "feed")

\* ClassifyFailure with a slip: the CAPTCHA rule is tried before the checkpoint rule
ClassifyFailure_CaptchaFirst(url, text) ==
    LET url_lower == Lower(url)
    IN  IF Contains(url, "two-step-verification") THEN ERR_TWO_FACTOR
        ELSE IF Contains(url_lower, "captcha") \/ Contains(Lower(text), "captcha")
             THEN ERR_CAPTCHA
        ELSE IF Contains(url, "checkpoint") /\ Contains(url, "challenge")
             THEN ERR_CHECKPOINT
        ELSE IF Contains(url_lower, "rate") \/ Contains(url_lower, "limit")
             THEN ERR_RATE_LIMIT
        ELSE ERR_UNCLASSIFIED

\* ClassifyFailure with a slip: the checkpoint rule asks for one marker only
ClassifyFailure_CheckpointAlone(url, text) ==
    LET url_lower == Lower(url)
    IN  IF Contains(url, "two-step-verification") THEN ERR_TWO_FACTOR
        ELSE IF Contains(url, "challenge") /\ ~Contains(url, "checkpoint")
             THEN ERR_CHECKPOINT
        ELSE IF Contains(url_lower, "captcha") \/ Contains(Lower(text), "captcha")
             THEN ERR_CAPTCHA
        ELSE IF Contains(url_lower, "rate") \/ Contains(url_lower, "limit")
             THEN ERR_RATE_LIMIT
        ELSE ERR_UNCLASSIFIED

\* the if/elif chain that picks auth_state['error'] for a failed login
ClassifyFailure(url, text) ==
    LET url_lower == Lower(url)
    IN  IF Contains(url, "two-step-verification") THEN ERR_TWO_FACTOR
        ELSE IF Contains(url, "checkpoint") /\ Contains(url, "challenge")
             THEN ERR_CHECKPOINT
        ELSE IF Contains(url_lower, "captcha") \/ Contains(Lower(text), "captcha")
             THEN ERR_CAPTCHA
        ELSE IF Contains(url_lower, "rate") \/ Contains(url_lower, "limit")
             THEN ERR_RATE_LIMIT
        ELSE ERR_UNCLASSIFIED

\* LoginSucceeded on the landing URLs, computed once
LoginSucceededOn == [u \in LandingUrls |-> LoginSucceeded(u)]

\* ClassifyFailure on the login responses, computed once
FailureClassOf == [r \in LoginResponses |-> ClassifyFailure(r.url, r.text)]

\* auth_state after the early return for missing credentials
AuthNoCredentials(st) == DictSet(st, "error", ERR_NO_CREDENTIALS)

\* auth_state after the return for a login page without a token
AuthCsrfFailure(st) == DictSet(st, "error", ERR_CSRF)

\* auth_state after the success branch
AuthSuccess(st) == DictDel(DictSet(st, "logged_in", TRUE), "password")

\* auth_state after the failure branch
AuthFailure(st, url, text) ==
    DictDel(DictSet(DictSet(st, "error", FailureClassOf[[url |-> url, text |-> text]]),
                    "logged_in", FALSE),
            "password")

\* auth_state after the except handler
AuthException(st, e) ==
    LET s1 == DictSet(DictSet(st, "error", ErrException(e)), "logged_in", FALSE)
    IN  IF "password" \in DOMAIN s1 THEN DictDel(s1, "password") ELSE s1

\* the dict posted to login-submit
LoginData(st, csrf_token) ==
    [session_key |-> st["username"], session_password |-> st["password"],
     loginCsrfParam |-> csrf_token]

\* what a call of authenticate leaves behind: the new auth_state and cookie
\* store, the value returned, the return statement reached, the requests sent,
\* the login_data posted and the login_response received (<<>> when none)
AuthOutcome(st, ck, ret, path, requests, login_data, login_response) ==
    [state |-> st, cookies |-> ck, ret |-> ret, path |-> path,
     requests |-> requests, login_data |-> login_data,
     login_response |-> login_response]

\* authenticate() on auth_state st and cookie store ck, where session.get
\* answers `get` and session.post answers `post`
Authenticate(st, ck, get, post) ==
    IF ~HasCredentials(st)
    THEN AuthOutcome(AuthNoCredentials(st), ck, FALSE, "no_credentials",
                     <<>>, <<>>, <<>>)
    ELSE IF "username" \notin DOMAIN st
    THEN AuthOutcome(AuthException(st, "'username'"), ck, FALSE, "exception",
                     <<>>, <<>>, <<>>)
    ELSE IF "password" \notin DOMAIN st
    THEN AuthOutcome(AuthException(st, "'password'"), ck, FALSE, "exception",
                     <<>>, <<>>, <<>>)
    ELSE IF get.raises
    THEN AuthOutcome(AuthException(st, get.exc), ck, FALSE, "exception",
                     <<"GET">>, <<>>, <<>>)
    ELSE LET ck1 == ck \cup get.set_cookies
             csrf_token == CsrfTokenOf[get.text]
         IN  IF Falsy(csrf_token)
             THEN AuthOutcome(AuthCsrfFailure(st), ck1, FALSE, "no_csrf",
                              <<"GET">>, <<>>, <<>>)
             ELSE LET login_data == LoginData(st, csrf_token)
                  IN  IF post.raises
                      THEN AuthOutcome(AuthException(st, post.exc), ck1, FALSE,
                                       "exception", <<"GET", "POST">>,
                                       <<login_data>>, <<>>)
                      ELSE LET ck2 == ck1 \cup post.set_cookies
                               resp == [url |-> post.url, text |-> post.text]
                           IN  IF LoginSucceededOn[post.url]
                               THEN AuthOutcome(AuthSuccess(st), ck2, TRUE,
                                                "success", <<"GET", "POST">>,
                                                <<login_data>>, <<resp>>)
                               ELSE AuthOutcome(AuthFailure(st, post.url, post.text),
                                                ck2, FALSE, "failure",
                                                <<"GET", "POST">>,
                                                <<login_data>>, <<resp>>)

----------------------------------------------------------------------------
(* linkedin_auth.fetch_url_with_auth and the getters *)

\* the guard of the early return: `not auth_state.get('logged_in', False)`
NotLoggedIn(st) == ~DictGet(st, "logged_in", FALSE)

\* the URL requested: https:// is put before a URL without a scheme
RequestUrl(url) ==
    IF StartsWith(url, "http://") \/ StartsWith(url, "https://")
    THEN url ELSE "https://" \o url

\* StatusAccepted with a slip: every 2xx status lets the text through
StatusAccepted_Any2xx(status_code) == status_code >= 200 /\ status_code < 300

\* the test on response.status_code that lets response.text through
StatusAccepted(status_code) == status_code = 200

\* what a call of fetch_url_with_auth leaves behind: the cookie store, the
\* value returned, the URL requested and the response received (<<>> when none)
FetchOutcome(ck, ret, requested, response) ==
    [cookies |-> ck, ret |-> ret, requested |-> requested, response |-> response]

\* fetch_url_with_auth(url), where session.get answers `get`
FetchUrlWithAuth(st, ck, url, get) ==
    IF NotLoggedIn(st)
    THEN FetchOutcome(ck, NoneValue, <<>>, <<>>)
    ELSE IF get.raises
    THEN FetchOutcome(ck, NoneValue, <<RequestUrl(url)>>, <<>>)
    ELSE LET response == [status_code |-> get.status_code, text |-> get.text]
         IN  IF StatusAccepted(get.status_code)
             THEN FetchOutcome(ck \cup get.set_cookies, get.text,
                               <<RequestUrl(url)>>, <<response>>)
             ELSE FetchOutcome(ck \cup get.set_cookies, NoneValue,
                               <<RequestUrl(url)>>, <<response>>)

\* FetchAuthState with a slip: a fetch that raises is recorded in 'error'
FetchAuthState_RecordsError(st, get) ==
    IF ~NotLoggedIn(st) /\ get.raises THEN DictSet(st, "error", ErrException(get.exc)) ELSE st

\* auth_state after fetch_url_with_auth: the function reads 'logged_in' and
\* assigns to no key, on any of its returns
FetchAuthState(st, get) == st

\* is_authenticated()
IsAuthenticated(st) == DictGet(st, "logged_in", FALSE)

\* get_auth_username()
GetAuthUsername(st) ==
    IF DictGet(st, "logged_in", FALSE) THEN DictGet(st, "username", NoneValue)
    ELSE NoneValue

\* get_auth_error()
GetAuthError(st) == DictGet(st, "error", NoneValue)

----------------------------------------------------------------------------
(* The session state machine: one action per operation of linkedin_auth *)

Init ==
    /\ auth_state = InitialAuthState
    /\ cookies = {}
    /\ call = [op |-> "import"]

set_credentials ==
    \E username \in Usernames, password \in Passwords :
        /\ auth_state' = IF EmptyCredentials(username, password)
                         THEN SetCredentialsRejected(auth_state)
                         ELSE SetCredentialsStored(auth_state, username, password)
        /\ cookies' = cookies
        /\ call' = [op |-> "set_credentials", username |-> username,
                    password |-> password,
                    ret |-> ~EmptyCredentials(username, password)]

clear_credentials ==
    /\ auth_state' = ClearedAuthState(auth_state)
    /\ cookies' = ClearedCookies(cookies)
    /\ call' = [op |-> "clear_credentials", ret |-> TRUE]

authenticate ==
    \E get \in LoginPageAnswers, post \in LoginSubmitAnswers :
        LET r == Authenticate(auth_state, cookies, get, post)
        IN  /\ auth_state' = r.state
            /\ cookies' = r.cookies
            /\ call' = [op |-> "authenticate", ret |-> r.ret, path |-> r.path,
                        requests |-> r.requests, login_data |-> r.login_data,
                        login_response |-> r.login_response]

fetch_url_with_auth ==
    \E url \in FetchUrls, get \in FetchAnswers :
        LET r == FetchUrlWithAuth(auth_state, cookies, url, get)
        IN  /\ auth_state' = FetchAuthState(auth_state, get)
            /\ cookies' = r.cookies
            /\ call' = [op |-> "fetch_url_with_auth", url |-> url, ret |-> r.ret,
                        requested |-> r.requested, response |-> r.response]

is_authenticated ==
    /\ call' = [op |-> "is_authenticated", ret |-> IsAuthenticated(auth_state)]
    /\ UNCHANGED <<auth_state, cookies>>

get_auth_username ==
    /\ call' = [op |-> "get_auth_username", ret |-> GetAuthUsername(auth_state)]
    /\ UNCHANGED <<auth_state, cookies>>

get_auth_error ==
    /\ call' = [op |-> "get_auth_error", ret |-> GetAuthError(auth_state)]
    /\ UNCHANGED <<auth_state, cookies>>

Next ==
    \/ set_credentials
    \/ clear_credentials
    \/ authenticate
    \/ fetch_url_with_auth
    \/ is_authenticated
    \/ get_auth_username
    \/ get_auth_error

Spec == Init /\ [][Next]_vars

----------------------------------------------------------------------------
(* Python values returned by the section extractors, tagged by their type *)

PyNone == <<"None">>

PyInt(n) == <<"int", n>>

PyStr(v) == <<"str", v>>

PyDict(d) == <<"dict", d>>

\* an exception that left the function
PyRaise(e) == <<"raise", e>>

\* str.strip() and str.rstrip(chars)
RECURSIVE RStripChars(_, _)
RStripChars(s, chars) ==
    IF s # "" /\ SubSeq(s, Len(s), Len(s)) \in chars
    THEN RStripChars(SubSeq(s, 1, Len(s) - 1), chars) ELSE s

RECURSIVE LStripChars(_, _)
LStripChars(s, chars) ==
    IF s # "" /\ Head(s) \in chars THEN LStripChars(Tail(s), chars) ELSE s

Strip(s) == LStripChars(RStripChars(s, WHITESPACE), WHITESPACE)

DIGITS == "0123456789"

\* the characters \d matches
IsDigit(c) == \E i \in 1..Len(DIGITS) : SubSeq(DIGITS, i, i) = c

RECURSIVE SkipDigits(_, _)
\* first position at or after j that holds no digit
SkipDigits(s, j) ==
    IF j <= Len(s) /\ IsDigit(SubSeq(s, j, j)) THEN SkipDigits(s, j + 1) ELSE j

RECURSIVE ParseInt(_)
\* int(s) on a str of digits
ParseInt(s) ==
    IF s = "" THEN 0
    ELSE LET d == CHOOSE i \in 1..Len(DIGITS) :
                      SubSeq(DIGITS, i, i) = SubSeq(s, Len(s), Len(s))
         IN  10 * ParseInt(SubSeq(s, 1, Len(s) - 1)) + (d - 1)

\* re.search(r'(a|b|...)', s, re.I) for literal alternatives: is there a match
SearchAnyOf(s, words) == \E w \in words : Contains(Lower(s), w)

\* group(1) of (\d+)\s*(w1|w2|...) matched at position i, case-insensitive
CountGroupAt(s, i, words) ==
    LET j == SkipDigits(s, i)
        k == SkipWhitespace(s, j)
    IN  IF j > i /\ \E w \in words : StartsAt(Lower(s), k, w)
        THEN SubSeq(s, i, j - 1) ELSE NoneValue

\* group(1) of the leftmost match of re.search(r'(\d+)\s*(w1|w2|...)', s, re.I),
\* None without a match
SearchCount(s, words) ==
    LET hits == {i \in 1..Len(s) : CountGroupAt(s, i, words) # NoneValue}
    IN  IF hits = {} THEN NoneValue
        ELSE CountGroupAt(s, CHOOSE i \in hits : \A h \in hits : i <= h, words)

----------------------------------------------------------------------------
(* BeautifulSoup documents: the tags of a parsed page in document order.
   A tag has a name, the index of its parent tag (0 for the soup itself),
   its class, action and href attributes (None when absent) and the text
   it holds directly, ahead of its child tags. *)

Tag(name, parent, class, string) ==
    [name |-> name, parent |-> parent, class |-> class, action |-> NoneValue,
     href |-> NoneValue, string |-> string]

FormTag(parent, action) ==
    [name |-> "form", parent |-> parent, class |-> NoneValue, action |-> action,
     href |-> NoneValue, string |-> ""]

LinkTag(parent, href, string) ==
    [name |-> "a", parent |-> parent, class |-> NoneValue, action |-> NoneValue,
     href |-> href, string |-> string]

RECURSIVE IsInside(_, _, _)
\* tag j lies inside tag a (a = 0: the soup holds every tag)
IsInside(doc, j, a) ==
    IF a = 0 THEN TRUE
    ELSE IF doc[j].parent = 0 THEN FALSE
    ELSE doc[j].parent = a \/ IsInside(doc, doc[j].parent, a)

\* the tags inside tag a, in document order
TagsInside(doc, a) == SelectSeq([j \in 1..Len(doc) |-> j], LAMBDA j : IsInside(doc, j, a))

\* the child tags of tag a
Children(doc, a) == {j \in 1..Len(doc) : doc[j].parent = a}

RECURSIVE ConcatStrings(_, _)
\* the strings of the tags listed in idx, joined
ConcatStrings(doc, idx) ==
    IF idx = <<>> THEN ""
    ELSE doc[Head(idx)].string \o ConcatStrings(doc, Tail(idx))

\* tag.text / tag.get_text(): the text of the tag and of every tag inside it
TextOf(doc, i) == doc[i].string \o ConcatStrings(doc, TagsInside(doc, i))

RECURSIVE StringOf(_, _)
\* tag.string: the tag's only text, that of its only child otherwise, or None
StringOf(doc, i) ==
    LET kids == Children(doc, i)
    IN  IF kids = {} THEN (IF doc[i].string = "" THEN NoneValue ELSE doc[i].string)
        ELSE IF doc[i].string = "" /\ Cardinality(kids) = 1
             THEN StringOf(doc, CHOOSE k \in kids : TRUE)
        ELSE NoneValue

\* find_all(names, ...) below tag a (0: the soup): the indices, in document
\* order, of the tags with one of the names that are among those
\* passing the test
FindAll(doc, a, names, passing) ==
    SelectSeq(TagsInside(doc, a), LAMBDA j : doc[j].name \in names /\ j \in passing)

\* find(...): the first tag of find_all, 0 when there is none
FirstOf(idx) == IF idx = <<>> THEN 0 ELSE Head(idx)

\* the lambda on class_: c and any(term in str(c).lower() for term in terms)
ClassHasAny(class, terms) ==
    /\ ~Falsy(class)
    /\ \E t \in terms : Contains(Lower(class), t)

\* str(tag.get('class', '')).lower() holds the word
ClassMentions(doc, i, word) ==
    /\ i # 0
    /\ doc[i].class # NoneValue
    /\ Contains(Lower(doc[i].class), word)

\* tag.get('data-urn')
UrnOf(tag) == IF "data_urn" \in DOMAIN tag THEN tag.data_urn ELSE NoneValue

\* the markup of a tag as the server sent it
TagMarkup(t) ==
    "<" \o t.name
        \o (IF t.class = NoneValue THEN "" ELSE " class=\"" \o t.class \o "\"")
        \o (IF t.action = NoneValue THEN "" ELSE " action=\"" \o t.action \o "\"")
        \o (IF t.href = NoneValue THEN "" ELSE " href=\"" \o t.href \o "\"")
        \o (IF UrnOf(t) = NoneValue THEN "" ELSE " data-urn=\"" \o UrnOf(t) \o "\"")
        \o ">" \o t.string

RECURSIVE Markup(_)
\* html_content: the markup of the page the document was parsed from
Markup(doc) == IF doc = <<>> THEN "" ELSE TagMarkup(Head(doc)) \o Markup(Tail(doc))

----------------------------------------------------------------------------
(* Both jobs extractors: shared steps *)

\* the guard `'/company/' not in linkedin_url`
NotCompanyUrl(linkedin_url) == ~Contains(linkedin_url, "/company/")

\* one slash at most is stripped
SectionUrl_OneSlash(linkedin_url, suffix) ==
    IF ~EndsWith(linkedin_url, suffix)
    THEN (IF linkedin_url # "" /\ EndsWith(linkedin_url, "/")
          THEN SubSeq(linkedin_url, 1, Len(linkedin_url) - 1)
          ELSE linkedin_url) \o suffix
    ELSE linkedin_url

\* the sub-page URL: the suffix is appended unless the URL ends with it
SectionUrl(linkedin_url, suffix) ==
    IF ~EndsWith(linkedin_url, suffix)
    THEN RStripChars(linkedin_url, {"/"}) \o suffix
    ELSE linkedin_url

\* the shortest title that is kept is longer than this
JOB_TITLE_MIN == 3

\* the test `title and len(title) > 3`
TitleAccepted(title) == ~Falsy(title) /\ Len(title) > JOB_TITLE_MIN

DATE_WORDS == {"posted", "ago", "day", "week", "month"}

\* a job dict: location and date_posted are set only when they were found
JobDict(title, location, date_posted) ==
    LET j1 == [title |-> title]
        j2 == IF Falsy(location) THEN j1 ELSE DictSet(j1, "location", location)
    IN  IF Falsy(date_posted) THEN j2 ELSE DictSet(j2, "date_posted", date_posted)

\* the first tag, among those listed, whose .string matches one of the words
FirstWithString(doc, idx, words) ==
    FirstOf(SelectSeq(idx, LAMBDA j :
        /\ doc[j].name \in {"span", "div"}
        /\ StringOf(doc, j) # NoneValue
        /\ SearchAnyOf(StringOf(doc, j), words)))

\* the first tag, among those listed, whose .string holds a count of the words
FirstWithCount(doc, idx, words) ==
    FirstOf(SelectSeq(idx, LAMBDA j :
        /\ doc[j].name \in {"span", "div"}
        /\ StringOf(doc, j) # NoneValue
        /\ SearchCount(StringOf(doc, j), words) # NoneValue))

\* tag.text.strip() of tag i, None for no tag
StrippedTextOrNone(doc, i) == IF i = 0 THEN NoneValue ELSE Strip(TextOf(doc, i))

----------------------------------------------------------------------------
(* authenticated_linkedin_scraper: fetch_linkedin_page *)

\* login_to_linkedin(opener): False without both credentials; with them the
\* first statement after the guard names http.cookiejar, and the module does
\* not import http, so the call leaves with a NameError
LoginToLinkedin(email, password) ==
    IF Falsy(email) \/ Falsy(password)
    THEN [raised |-> FALSE, ret |-> FALSE]
    ELSE [raised |-> TRUE, exc |-> "NameError"]

\* the marker of a redirect to the login page
LOGIN_MARKER == "uas/login"

\* fetch_linkedin_page(url): (html_content, authenticated), where opener.open
\* answers `answer`; doc is what BeautifulSoup makes of html_content.
\* opener is the requests.Session of setup_authenticated_session: open may
\* raise on it, which is the answer raises = TRUE
FetchLinkedinPage(email, password, answer) ==
    LET login == LoginToLinkedin(email, password)
    IN  IF login.raised THEN [raised |-> TRUE, exc |-> login.exc]
        ELSE IF answer.raises
        THEN [raised |-> FALSE, html_content |-> NoneValue, doc |-> <<>>,
              authenticated |-> login.ret]
        ELSE [raised |-> FALSE, html_content |-> Markup(answer.doc),
              doc |-> answer.doc,
              authenticated |-> IF Contains(answer.final_url, LOGIN_MARKER)
                                THEN FALSE ELSE login.ret]

----------------------------------------------------------------------------
(* authenticated_linkedin_scraper: extract_company_jobs *)

\* the record returned when the jobs page could not be fetched
JobsFetchError ==
    [count |-> PyStr("Error fetching page"), jobs |-> <<>>,
     authentication_required |-> TRUE,
     authentication_status |-> "Failed to authenticate"]

\* the test for a redirect to login on the fetched page
WallDetected(html_content, doc) ==
    \/ Contains(Lower(html_content), LOGIN_MARKER)
    \/ \E i \in 1..Len(doc) :
           /\ doc[i].name = "form"
           /\ doc[i].action # NoneValue
           /\ Contains(doc[i].action, "login")

\* the item that stands for the job list behind the login
JOBS_PLACEHOLDER ==
    [title |-> "LinkedIn requires authentication to view job listings",
     location |-> "Login required", date_posted |-> "Recently"]

COUNT_WORDS == {"job", "position", "opening"}

\* the count read from a page: group(1) of the count pattern in the text of
\* the first span or div whose string matches it, None when there is none
PageCount(doc, words) ==
    LET el == FirstWithCount(doc, TagsInside(doc, 0), words)
    IN  IF el = 0 THEN NoneValue ELSE SearchCount(TextOf(doc, el), words)

COUNT_UNKNOWN == "Unknown (login required)"

\* jobs_data returned from the login branch
JobsBehindWall(jobs_data, main) ==
    LET d1 == DictSet(jobs_data, "authentication_required", TRUE)
        d2 == DictSet(d1, "jobs", Append(d1["jobs"], JOBS_PLACEHOLDER))
        found == IF Falsy(main.html_content) THEN NoneValue
                 ELSE PageCount(main.doc, COUNT_WORDS)
        d3 == IF found = NoneValue THEN d2 ELSE DictSet(d2, "count", PyStr(found))
    IN  IF d3["count"] = PyInt(0) THEN DictSet(d3, "count", PyStr(COUNT_UNKNOWN))
        ELSE d3

AUTH_CARD_TERMS == {"job-card", "job-listing", "job-result", "jobs-job-card"}

\* Method 1: li and div tags with a job-card class
AuthMethod1(doc) ==
    FindAll(doc, 0, {"li", "div"},
            {j \in 1..Len(doc) : ClassHasAny(doc[j].class, AUTH_CARD_TERMS)})

\* Method 2: h3 and h4 tags with a job-title class
AuthMethod2(doc) ==
    FindAll(doc, 0, {"h3", "h4"},
            {j \in 1..Len(doc) : ClassHasAny(doc[j].class, {"job-title"})})

\* Method 3, for one title tag: its parent or grandparent when the class of
\* that tag mentions job or position, the title tag itself otherwise
AuthMethod3Pick(doc, t) ==
    LET parent == doc[t].parent
        grandparent == IF parent = 0 THEN 0 ELSE doc[parent].parent
    IN  IF ClassMentions(doc, parent, "job") \/ ClassMentions(doc, parent, "position")
        THEN parent
        ELSE IF parent # 0 /\ (ClassMentions(doc, grandparent, "job")
                               \/ ClassMentions(doc, grandparent, "position"))
        THEN grandparent
        ELSE t

RECURSIVE MapPick(_, _)
MapPick(doc, idx) ==
    IF idx = <<>> THEN <<>>
    ELSE <<AuthMethod3Pick(doc, Head(idx))>> \o MapPick(doc, Tail(idx))

\* Method 3: one element per h3, h4 or a tag whose string is longer than 5
AuthMethod3(doc) ==
    MapPick(doc, FindAll(doc, 0, {"h3", "h4", "a"}, {j \in 1..Len(doc) :
        /\ StringOf(doc, j) # NoneValue
        /\ Len(Strip(StringOf(doc, j))) > 5}))

\* job_elements: the first method that finds anything
AuthJobElements(doc) ==
    IF AuthMethod1(doc) # <<>> THEN AuthMethod1(doc)
    ELSE IF AuthMethod2(doc) # <<>> THEN AuthMethod2(doc)
    ELSE AuthMethod3(doc)

AUTH_LOCATION_WORDS ==
    {"remote", "united states", "usa", "uk", "canada", "australia", "india",
     "germany", "france", "anywhere"}

\* the first span or div below the parent whose stripped text matches a word
FirstSiblingText(doc, parent, words) ==
    LET hits == SelectSeq(TagsInside(doc, parent), LAMBDA j :
                    /\ doc[j].name \in {"span", "div"}
                    /\ SearchAnyOf(Strip(TextOf(doc, j)), words))
    IN  IF hits = <<>> THEN NoneValue ELSE Strip(TextOf(doc, Head(hits)))

\* title of one element: its own stripped text when it is a heading or a
\* link, else that of the first heading or link inside, else its own
AuthJobTitle(doc, e) ==
    IF doc[e].name \in {"h3", "h4", "a"} THEN Strip(TextOf(doc, e))
    ELSE LET title_element == FirstOf(FindAll(doc, e, {"h3", "h4", "a"}, 1..Len(doc)))
         IN  IF title_element # 0 THEN Strip(TextOf(doc, title_element))
             ELSE Strip(TextOf(doc, e))

\* the job made of one element: <<job>>, or <<>> when the title is refused
AuthJobOf(doc, e) ==
    IF doc[e].name \in {"h3", "h4", "a"}
    THEN LET title == AuthJobTitle(doc, e)
         IN  IF TitleAccepted(title)
             THEN <<JobDict(title,
                            FirstSiblingText(doc, doc[e].parent, AUTH_LOCATION_WORDS),
                            FirstSiblingText(doc, doc[e].parent, DATE_WORDS))>>
             ELSE <<>>
    ELSE LET title == AuthJobTitle(doc, e)
         IN  IF TitleAccepted(title)
             THEN <<JobDict(title,
                            StrippedTextOrNone(doc, FirstWithString(doc, TagsInside(doc, e),
                                                                    AUTH_LOCATION_WORDS)),
                            StrippedTextOrNone(doc, FirstWithString(doc, TagsInside(doc, e),
                                                                    DATE_WORDS)))>>
             ELSE <<>>

RECURSIVE AuthJobs(_, _)
\* jobs_data['jobs'] after the loop over job_elements
AuthJobs(doc, elements) ==
    IF elements = <<>> THEN <<>>
    ELSE AuthJobOf(doc, Head(elements)) \o AuthJobs(doc, Tail(elements))

\* jobs_data returned from the extraction branch
JobsExtracted(jobs_data, doc, authenticated) ==
    LET jobs == AuthJobs(doc, AuthJobElements(doc))
        d1 == DictSet(DictSet(jobs_data, "jobs", jobs), "count", PyInt(Len(jobs)))
        count_element == FirstWithCount(doc, TagsInside(doc, 0), COUNT_WORDS)
    IN  IF jobs = <<>> /\ authenticated
        THEN IF count_element # 0
             THEN LET count_value == SearchCount(TextOf(doc, count_element), COUNT_WORDS)
                  IN  IF count_value = NoneValue THEN d1
                      ELSE DictSet(DictSet(d1, "count", PyStr(count_value)), "jobs",
                               <<[title |-> "Company has " \o count_value \o " job openings",
                                  location |-> "See LinkedIn for details",
                                  date_posted |-> "Recently"]>>)
             ELSE DictSet(d1, "jobs",
                      <<[title |-> "No job listings found on this company page",
                         location |-> "See LinkedIn directly for latest opportunities",
                         date_posted |-> "Recently"]>>)
        ELSE d1

\* extract_company_jobs(linkedin_url) with the credentials of the environment,
\* where opener.open answers jobs_answer for the jobs page and main_answer for
\* the company page
ExtractCompanyJobs(linkedin_url, email, password, jobs_answer, main_answer) ==
    IF NotCompanyUrl(linkedin_url) THEN PyNone
    ELSE LET page == FetchLinkedinPage(email, password, jobs_answer)
         IN  IF page.raised THEN PyRaise(page.exc)
             ELSE IF Falsy(page.html_content) THEN PyDict(JobsFetchError)
             ELSE LET jobs_data ==
                          [count |-> PyInt(0), jobs |-> <<>>,
                           authentication_status |->
                               IF page.authenticated THEN "Authenticated"
                               ELSE "Not authenticated"]
                  IN  IF WallDetected(page.html_content, page.doc)
                      THEN PyDict(JobsBehindWall(jobs_data,
                                      FetchLinkedinPage(email, password, main_answer)))
                      ELSE PyDict(JobsExtracted(jobs_data, page.doc, page.authenticated))

----------------------------------------------------------------------------
(* linkedin_enhanced_scraper: extract_job_openings *)

OPEN_CARD_TERMS == {"job-card", "job-listing", "job-result", "jobs-search", "job-item"}

\* job_elements: li and div tags with a job-card class, else the h3 and h4
\* tags that hold a string
OpenJobElements(doc) ==
    LET cards == FindAll(doc, 0, {"li", "div"},
                         {j \in 1..Len(doc) : ClassHasAny(doc[j].class, OPEN_CARD_TERMS)})
    IN  IF cards # <<>> THEN cards
        ELSE FindAll(doc, 0, {"h3", "h4"}, {j \in 1..Len(doc) :
                 /\ StringOf(doc, j) # NoneValue
                 /\ Len(Strip(StringOf(doc, j))) > 0})

OPEN_LOCATION_WORDS ==
    {"remote", "united states", "usa", "uk", "canada", "australia", "india",
     "germany", "france"}

\* the tags after tag e in document order: where find_next looks
TagsAfter(doc, e) == [k \in 1..(Len(doc) - e) |-> e + k]

\* job_title of one element: element.get_text().strip()
OpenJobTitle(doc, e) == Strip(TextOf(doc, e))

\* the job made of one element: <<job>>, or <<>> when the title is refused
OpenJobOf(doc, e) ==
    LET job_title == OpenJobTitle(doc, e)
    IN  IF TitleAccepted(job_title)
        THEN <<JobDict(job_title,
                       StrippedTextOrNone(doc, FirstWithString(doc, TagsAfter(doc, e),
                                                               OPEN_LOCATION_WORDS)),
                       StrippedTextOrNone(doc, FirstWithString(doc, TagsAfter(doc, e),
                                                               DATE_WORDS)))>>
        ELSE <<>>

RECURSIVE OpenJobs(_, _)
\* jobs_data['jobs'] after the loop over job_elements
OpenJobs(doc, elements) ==
    IF elements = <<>> THEN <<>>
    ELSE OpenJobOf(doc, Head(elements)) \o OpenJobs(doc, Tail(elements))

\* extract_job_openings(linkedin_url), where trafilatura.fetch_url answers
\* `answer`
ExtractJobOpenings(linkedin_url, answer) ==
    IF NotCompanyUrl(linkedin_url) THEN PyNone
    ELSE IF answer.raises THEN PyNone
    ELSE IF Falsy(Markup(answer.doc)) THEN PyNone
    ELSE LET doc == answer.doc
             found == PageCount(doc, {"job"})
             count == IF found = NoneValue THEN 0 ELSE ParseInt(found)
             jobs == OpenJobs(doc, OpenJobElements(doc))
         IN  PyDict([count |-> PyInt(IF count = 0 THEN Len(jobs) ELSE count),
                     jobs |-> jobs])

----------------------------------------------------------------------------
(* Inputs of the jobs extractors *)

\* URLs a caller passes as linkedin_url
CompanyUrls ==
    { "https://www.linkedin.com/company/acme",
      "https://www.linkedin.com/company/acme//",
      "https://www.linkedin.com/company/acme/jobs",
      "https://www.linkedin.com/in/someone" }

\* LINKEDIN_EMAIL and LINKEDIN_PASSWORD as the environment sets them
EnvCredentials ==
    { [email |-> "", password |-> ""],
      [email |-> "bot@example.com", password |-> ""],
      [email |-> "bot@example.com", password |-> "secret"] }

\* a login page: a form posting to login-submit
DOC_LOGIN_FORM ==
    << Tag("h1", 0, NoneValue, "Sign in"),
       FormTag(0, "/checkpoint/lg/login-submit"),
       Tag("div", 2, "form-field", "Email or phone") >>

\* a login page with a heading of the kind job titles are read from
DOC_LOGIN_FORM_HEADING ==
    << FormTag(0, "https://www.linkedin.com/uas/login-submit"),
       Tag("h3", 1, NoneValue, "Join to see who is hiring"),
       Tag("span", 1, NoneValue, "New to LinkedIn? Join now") >>

\* a page that only links to the login page
DOC_LOGIN_LINK ==
    << Tag("div", 0, "nav", ""),
       LinkTag(1, "https://www.linkedin.com/UAS/login?session_redirect=jobs", "Sign in") >>

\* a jobs page with job cards
DOC_JOB_CARDS ==
    << Tag("div", 0, "Jobs-Job-Card-list__item", ""),
       Tag("h3", 1, NoneValue, " Software Engineer "),
       Tag("span", 1, NoneValue, "Remote, USA"),
       Tag("span", 1, NoneValue, "Posted 2 days ago"),
       Tag("li", 0, "job-result", "QA"),
       Tag("li", 0, "job-result", "Chef"),
       Tag("li", 0, "job-result", "CTO") >>

\* a jobs page with titles carrying a job-title class, one of them twice,
\* and a count
DOC_JOB_TITLES ==
    << FormTag(0, "/search"),
       Tag("h3", 0, "base-search-card job-title", "Data Analyst"),
       Tag("h4", 0, "job-title", "Data Analyst"),
       Tag("div", 0, NoneValue, "Berlin, Germany"),
       Tag("span", 0, NoneValue, "12 jobs") >>

\* a jobs page whose titles are plain headings and links
DOC_JOB_HEADINGS ==
    << Tag("div", 0, "open-positions", ""),
       Tag("ul", 1, NoneValue, ""),
       LinkTag(2, "/jobs/view/1", "Senior Accountant"),
       Tag("h3", 0, NoneValue, "Life at Acme"),
       Tag("span", 0, NoneValue, "2 open positions") >>

\* a jobs page that only reports a count
DOC_JOB_COUNT ==
    << Tag("div", 0, "summary", ""),
       Tag("span", 1, NoneValue, "12 Jobs") >>

\* a page without tags
DOC_EMPTY == << >>

JobsPages ==
    { DOC_LOGIN_FORM, DOC_LOGIN_FORM_HEADING, DOC_LOGIN_LINK, DOC_JOB_CARDS,
      DOC_JOB_TITLES, DOC_JOB_HEADINGS, DOC_JOB_COUNT, DOC_EMPTY }

\* a company page that reports a job count, and one that does not
DOC_COMPANY_WITH_COUNT ==
    << Tag("h1", 0, NoneValue, "Acme"),
       Tag("div", 0, NoneValue, "See all 37 job openings") >>

DOC_COMPANY_PLAIN == << Tag("h1", 0, NoneValue, "Acme") >>

\* response.geturl() of a fetched page
FinalUrls ==
    { "https://www.linkedin.com/company/acme/jobs",
      "https://www.linkedin.com/uas/login?session_redirect=jobs" }

\* a fetch that raised
FetchRaised == [raises |-> TRUE]

\* answers of opener.open(jobs_url)
JobsPageAnswers ==
    {FetchRaised}
    \cup {[raises |-> FALSE, doc |-> d, final_url |-> u] : d \in JobsPages, u \in FinalUrls}

\* answers of opener.open(linkedin_url)
MainPageAnswers ==
    {FetchRaised}
    \cup {[raises |-> FALSE, doc |-> d, final_url |-> "https://www.linkedin.com/company/acme"] :
            d \in {DOC_COMPANY_WITH_COUNT, DOC_COMPANY_PLAIN}}

\* answers of trafilatura.fetch_url(jobs_url)
DownloadAnswers ==
    {FetchRaised} \cup {[raises |-> FALSE, doc |-> d] : d \in JobsPages}

\* the calls of extract_company_jobs
CompanyJobsCalls ==
    [linkedin_url : CompanyUrls, env : EnvCredentials,
     jobs_answer : JobsPageAnswers, main_answer : MainPageAnswers]

\* the calls of extract_job_openings
JobOpeningsCalls == [linkedin_url : CompanyUrls, answer : DownloadAnswers]

\* ExtractCompanyJobs on the calls, computed once (the comparison makes TLC
\* tabulate the function instead of evaluating its body at each application)
CompanyJobsOf ==
    Tabulated([c \in CompanyJobsCalls |->
                 ExtractCompanyJobs(c.linkedin_url, c.env.email, c.env.password,
                                    c.jobs_answer, c.main_answer)])

\* ExtractJobOpenings on the calls, computed once
JobOpeningsOf ==
    Tabulated([c \in JobOpeningsCalls |-> ExtractJobOpenings(c.linkedin_url, c.answer)])

----------------------------------------------------------------------------
(* Claims about the session state machine *)

\* the landing URL and body of the login response of the last authenticate call
LandingUrl == call.login_response[1].url

LandingText == call.login_response[1].text

\* the last call was authenticate and its login submission was answered
LoginAnswered == call.op = "authenticate" /\ call.login_response # <<>>

\* C1: after every call of authenticate, whatever its outcome, no password
\* is held in auth_state.
C1_PasswordPurged ==
    call.op = "authenticate" => "password" \notin DOMAIN auth_state

\* C2 as stated: authenticate started with credentials returns true exactly
\* when the login was answered with a landing URL containing /feed/; then
\* logged_in is true and the password is gone; any other landing URL gives
\* false with logged_in false.
C2_SuccessIffSlashFeedSlash ==
    (call.op = "authenticate" /\ call.path # "no_credentials") =>
        /\ call.ret = (call.login_response # <<>> /\ Contains(LandingUrl, "/feed/"))
        /\ call.ret => (auth_state["logged_in"] /\ "password" \notin DOMAIN auth_state)
        /\ (call.login_response # <<>> /\ ~Contains(LandingUrl, "/feed/")) =>
               (~call.ret /\ ~auth_state["logged_in"])

\* C2 amended: authenticate started with credentials returns true exactly
\* when the login was answered with a landing URL containing feed; then
\* logged_in is true and the password is gone; any other landing URL gives
\* false with logged_in false.
C2_SuccessIffFeed ==
    (call.op = "authenticate" /\ call.path # "no_credentials") =>
        /\ call.ret = (call.login_response # <<>> /\ Contains(LandingUrl, "feed"))
        /\ call.ret => (auth_state["logged_in"] /\ "password" \notin DOMAIN auth_state)
        /\ (call.login_response # <<>> /\ ~Contains(LandingUrl, "feed")) =>
               (~call.ret /\ ~auth_state["logged_in"])

\* C2 witness: a login accepted on a landing URL that holds feed but not /feed/
C2_Witness ==
    /\ LoginAnswered
    /\ call.ret
    /\ ~Contains(LandingUrl, "/feed/")
    /\ auth_state["logged_in"]
    /\ "password" \notin DOMAIN auth_state

\* the conditions of the four classification rules on a login response
TwoFactorRule == Contains(LandingUrl, "two-step-verification")

CheckpointRule == Contains(LandingUrl, "checkpoint") /\ Contains(LandingUrl, "challenge")

CaptchaRule ==
    Contains(Lower(LandingUrl), "captcha") \/ Contains(Lower(LandingText), "captcha")

RateLimitRule ==
    Contains(Lower(LandingUrl), "rate") \/ Contains(Lower(LandingUrl), "limit")

\* C3: a login submission that does not land in the authenticated area
\* returns false with last_error set by the first rule that matches, in the
\* order two-factor, checkpoint, CAPTCHA, rate limit, unclassified; the five
\* messages are pairwise distinct.
C3_FirstMatchingRule ==
    (LoginAnswered /\ ~Contains(LandingUrl, "feed")) =>
        /\ ~call.ret
        /\ TwoFactorRule => auth_state["error"] = ERR_TWO_FACTOR
        /\ (~TwoFactorRule /\ CheckpointRule) => auth_state["error"] = ERR_CHECKPOINT
        /\ (~TwoFactorRule /\ ~CheckpointRule /\ CaptchaRule) =>
               auth_state["error"] = ERR_CAPTCHA
        /\ (~TwoFactorRule /\ ~CheckpointRule /\ ~CaptchaRule /\ RateLimitRule) =>
               auth_state["error"] = ERR_RATE_LIMIT
        /\ (~TwoFactorRule /\ ~CheckpointRule /\ ~CaptchaRule /\ ~RateLimitRule) =>
               auth_state["error"] = ERR_UNCLASSIFIED
        /\ Cardinality({ERR_TWO_FACTOR, ERR_CHECKPOINT, ERR_CAPTCHA,
                        ERR_RATE_LIMIT, ERR_UNCLASSIFIED}) = 5

\* C3 witness: a response matching the checkpoint rule and the CAPTCHA rule
\* was classified as a checkpoint
C3_Witness ==
    /\ LoginAnswered
    /\ ~call.ret
    /\ CheckpointRule /\ CaptchaRule /\ ~TwoFactorRule
    /\ auth_state["error"] = ERR_CHECKPOINT

\* C4 as stated: every login response whose landing URL holds checkpoint
\* and challenge gives false and the checkpoint message.
C4_CheckpointAlways ==
    (LoginAnswered /\ CheckpointRule) =>
        (~call.ret /\ auth_state["error"] = ERR_CHECKPOINT)

\* C4 amended: every login response whose landing URL holds checkpoint and
\* challenge, but neither feed nor two-step-verification, gives false and
\* the checkpoint message.
C4_CheckpointUnlessFeedOrTwoFactor ==
    (LoginAnswered /\ CheckpointRule /\ ~Contains(LandingUrl, "feed") /\ ~TwoFactorRule) =>
        (~call.ret /\ auth_state["error"] = ERR_CHECKPOINT)

\* C4 witness: a plain checkpoint/challenge landing URL was classified
C4_Witness ==
    /\ LoginAnswered
    /\ LandingUrl = "https://www.linkedin.com/checkpoint/challenge/AgE1"
    /\ ~call.ret
    /\ ~auth_state["logged_in"]
    /\ auth_state["error"] = ERR_CHECKPOINT

\* C5: set_credentials with an empty argument returns false and sets
\* last_error; otherwise it returns true, stores username and password and
\* leaves no last_error.
C5_SetCredentials ==
    call.op = "set_credentials" =>
        IF call.username = "" \/ call.password = ""
        THEN ~call.ret /\ auth_state["error"] = ERR_EMPTY
        ELSE /\ call.ret
             /\ auth_state["username"] = call.username
             /\ "password" \in DOMAIN auth_state
             /\ auth_state["password"] = call.password
             /\ auth_state["error"] = NoneValue

\* C5 witness: credentials were stored while a session was logged in
C5_Witness ==
    /\ call.op = "set_credentials"
    /\ call.ret
    /\ auth_state["logged_in"]
    /\ auth_state["username"] = "bob@example.com"
    /\ auth_state["password"] = "pw-b"

\* C6: clear_credentials leaves the ANONYMOUS state (not logged in, no
\* username, no password, no last_error, no cookie), and a second call in
\* a row changes nothing.
C6_ClearIsAnonymousAndIdempotent ==
    [][call'.op = "clear_credentials" =>
          /\ auth_state' = InitialAuthState
          /\ cookies' = {}
          /\ call.op = "clear_credentials" =>
                 (auth_state' = auth_state /\ cookies' = cookies)]_vars

\* C6 witness: clear_credentials has run
C6_Witness ==
    /\ call.op = "clear_credentials"
    /\ auth_state = InitialAuthState
    /\ cookies = {}

\* C7 as stated: fetch_url_with_auth returns None without a request when
\* not logged in; logged in, it returns the body of a 2xx response and None
\* for any other status.
C7_BodyOn2xx ==
    call.op = "fetch_url_with_auth" =>
        /\ ~auth_state["logged_in"] => (call.ret = NoneValue /\ call.requested = <<>>)
        /\ (auth_state["logged_in"] /\ call.response # <<>>) =>
               IF call.response[1].status_code >= 200 /\ call.response[1].status_code < 300
               THEN call.ret = call.response[1].text
               ELSE call.ret = NoneValue

\* C7 amended: fetch_url_with_auth returns None without a request when not
\* logged in; logged in, it returns the body of a response with status 200
\* and None for any other status.
C7_BodyOn200 ==
    call.op = "fetch_url_with_auth" =>
        /\ ~auth_state["logged_in"] => (call.ret = NoneValue /\ call.requested = <<>>)
        /\ (auth_state["logged_in"] /\ call.response # <<>>) =>
               IF call.response[1].status_code = 200
               THEN call.ret = call.response[1].text
               ELSE call.ret = NoneValue

\* C7 witness: a logged-in fetch answered 204 returned None
C7_Witness ==
    /\ call.op = "fetch_url_with_auth"
    /\ auth_state["logged_in"]
    /\ call.response # <<>>
    /\ call.response[1].status_code = 204
    /\ call.ret = NoneValue

\* C8: authenticate called with no password stored sends no request,
\* returns false and sets last_error to the no-credentials message.
C8_NoCredentials ==
    [][(call'.op = "authenticate" /\ "password" \notin DOMAIN auth_state) =>
          /\ call'.requests = <<>>
          /\ call'.login_data = <<>>
          /\ ~call'.ret
          /\ auth_state'["error"] = ERR_NO_CREDENTIALS
          /\ cookies' = cookies]_vars

\* C8 witness: authenticate found no password after an earlier login had
\* purged it
C8_Witness ==
    /\ call.op = "authenticate"
    /\ call.path = "no_credentials"
    /\ auth_state["logged_in"]
    /\ auth_state["error"] = ERR_NO_CREDENTIALS

\* C9 as stated: once logged in, the session stays logged in across every
\* call other than clear_credentials.
C9_OnlyClearLogsOut ==
    [][(auth_state["logged_in"] /\ call'.op # "clear_credentials") =>
          auth_state'["logged_in"]]_vars

\* C9 amended: once logged in, the session stays logged in until
\* clear_credentials is called or an authenticate call ends in a failed
\* login submission or in an exception.
C9_LogoutOnlyByClearOrFailedLogin ==
    [][(auth_state["logged_in"] /\ ~auth_state'["logged_in"]) =>
          \/ call'.op = "clear_credentials"
          \/ call'.op = "authenticate" /\ call'.path \in {"failure", "exception"}]_vars

\* C9 witness: a logged-in session survived an authenticate call that
\* stopped at a login page without a token
C9_Witness ==
    /\ call.op = "authenticate"
    /\ call.path = "no_csrf"
    /\ auth_state["logged_in"]

----------------------------------------------------------------------------
(* Claims about the section extractors *)

\* the page holds a login form: a form whose action names login
HasLoginForm(doc) ==
    \E i \in 1..Len(doc) :
        /\ doc[i].name = "form"
        /\ doc[i].action # NoneValue
        /\ Contains(doc[i].action, "login")

\* the last call was a jobs extractor that fetched a jobs page and returned
JobsPageFetched ==
    /\ call.op \in {"extract_company_jobs", "extract_job_openings"}
    /\ call.requested # <<>>
    /\ ~call.jobs_answer.raises
    /\ call.ret[1] # "raise"

\* C10: a jobs extractor that fetched a page holding a login form returns
\* authentication_required = true and a jobs list made of the placeholder
\* alone.
C10_WallYieldsPlaceholder ==
    (JobsPageFetched /\ HasLoginForm(call.jobs_answer.doc)) =>
        /\ call.ret[1] = "dict"
        /\ "authentication_required" \in DOMAIN call.ret[2]
        /\ call.ret[2]["authentication_required"] = TRUE
        /\ call.ret[2]["jobs"] = <<JOBS_PLACEHOLDER>>

----------------------------------------------------------------------------
(* Regular expressions of src/scraper.py.  A pattern is a sequence of items:
   a character class with a repetition range, or an alternation of literal
   words.  The match is the one Python's backtracking search finds: each
   greedy item takes the longest repetition the rest of the pattern can
   follow, each lazy item the shortest. *)

\* the characters of a str, as a set
CharsOf(str) == {SubSeq(str, i, i) : i \in 1..Len(str)}

\* the characters \w matches
WORD_CHARS == CharsOf(UPPERCASE \o LOWERCASE \o DIGITS \o "_")

\* a class repeated between min and max times; max < 0 is no upper limit
Cls(chars, min, max, greedy) ==
    [kind |-> "cls", chars |-> chars, min |-> min, max |-> max, greedy |-> greedy]

\* (w1|w2|...): the alternatives in the order they are tried
Lit(words) == [kind |-> "lit", words |-> words]

RECURSIVE RunLen(_, _, _, _)
\* how many characters from position p on lie in the class, at most max
RunLen(s, p, chars, max) ==
    IF max > 0 /\ p <= Len(s) /\ SubSeq(s, p, p) \in chars
    THEN 1 + RunLen(s, p + 1, chars, max - 1) ELSE 0

RECURSIVE ReMatchEnd(_, _, _)
\* re.match of the pattern at position p: the position after the match,
\* 0 without a match
ReMatchEnd(s, p, items) ==
    IF items = <<>> THEN p
    ELSE LET it == Head(items)
             rest == Tail(items)
         IN  IF it.kind = "cls"
             THEN LET run == RunLen(s, p, it.chars,
                                    IF it.max < 0 THEN Len(s) ELSE it.max)
                      ok == {n \in it.min..run : ReMatchEnd(s, p + n, rest) # 0}
                  IN  IF ok = {} THEN 0
                      ELSE LET n == IF it.greedy
                                    THEN CHOOSE x \in ok : \A y \in ok : y <= x
                                    ELSE CHOOSE x \in ok : \A y \in ok : x <= y
                           IN  ReMatchEnd(s, p + n, rest)
             ELSE LET ok == {k \in 1..Len(it.words) :
                                /\ StartsAt(s, p, it.words[k])
                                /\ ReMatchEnd(s, p + Len(it.words[k]), rest) # 0}
                  IN  IF ok = {} THEN 0
                      ELSE LET k == CHOOSE x \in ok : \A y \in ok : x <= y
                           IN  ReMatchEnd(s, p + Len(it.words[k]), rest)

\* the positions where the pattern matches
ReStarts(s, items) == {i \in 1..Len(s) : ReMatchEnd(s, i, items) # 0}

\* re.search(pattern, s) is not None
ReSearch(s, items) == ReStarts(s, items) # {}

\* re.search(pattern, s).group(0), None without a match
ReSearchGroup(s, items) ==
    LET starts == ReStarts(s, items)
    IN  IF starts = {} THEN NoneValue
        ELSE LET i == CHOOSE x \in starts : \A y \in starts : x <= y
             IN  SubSeq(s, i, ReMatchEnd(s, i, items) - 1)

RECURSIVE ReCollect(_, _, _, _)
\* the matches at or after position p, left to right, none overlapping
ReCollect(s, items, starts, p) ==
    LET later == {i \in starts : i >= p}
    IN  IF later = {} THEN <<>>
        ELSE LET i == CHOOSE x \in later : \A y \in later : x <= y
                 e == ReMatchEnd(s, i, items)
             IN  <<SubSeq(s, i, e - 1)>> \o ReCollect(s, items, starts, e)

\* re.findall(pattern, s) for a pattern without groups
ReFindAll(s, items) == ReCollect(s, items, ReStarts(s, items), 1)

\* the characters [\w\.-] matches
EMAIL_CHARS == WORD_CHARS \cup {".", "-"}

\* EMAIL_PATTERN = r'[\w\.-]+@[\w\.-]+\.\w+'
EMAIL_PATTERN ==
    << Cls(EMAIL_CHARS, 1, -1, TRUE), Lit(<<"@">>), Cls(EMAIL_CHARS, 1, -1, TRUE),
       Lit(<<".">>), Cls(WORD_CHARS, 1, -1, TRUE) >>

\* the characters [-.\s] matches
SEPARATOR_CHARS == WHITESPACE \cup {"-", "."}

\* the contact patterns of MyHTMLParser.handle_data
PARSER_EMAIL_PATTERN ==
    << Cls(EMAIL_CHARS, 1, -1, TRUE), Lit(<<"@">>), Cls(EMAIL_CHARS, 1, -1, TRUE) >>

PARSER_PHONE_PATTERN ==
    << Cls({"+"}, 0, 1, TRUE), Cls(CharsOf(DIGITS), 1, 4, FALSE),
       Cls(SEPARATOR_CHARS, 0, 1, TRUE), Cls({"("}, 0, 1, TRUE),
       Cls(CharsOf(DIGITS), 1, 3, FALSE), Cls({")"}, 0, 1, TRUE),
       Cls(SEPARATOR_CHARS, 0, 1, TRUE), Cls(CharsOf(DIGITS), 1, 4, TRUE),
       Cls(SEPARATOR_CHARS, 0, 1, TRUE), Cls(CharsOf(DIGITS), 1, 4, TRUE),
       Cls(SEPARATOR_CHARS, 0, 1, TRUE), Cls(CharsOf(DIGITS), 1, 4, TRUE) >>

PARSER_ADDRESS_PATTERN ==
    << Cls(CharsOf(DIGITS), 1, 4, TRUE), Cls(WORD_CHARS \cup WHITESPACE, 1, -1, TRUE),
       Cls(CharsOf(DIGITS) \cup {",", "-", "."}, 0, -1, TRUE),
       Cls(WHITESPACE, 0, -1, TRUE),
       Lit(<<"Street", "Ave", "Road", "Boulevard", "Lane">>) >>

----------------------------------------------------------------------------
(* Web pages of src/scraper.py: the tags of html_content in document order.
   A tag has a name, the index of its parent (0 for the document), its
   attributes as a dict and the text it holds ahead of its child tags. *)

\* a dict without keys
EmptyDict == [k \in {} |-> ""]

WebTag(name, parent, attrs, string) ==
    [name |-> name, parent |-> parent, attrs |-> attrs, string |-> string]

\* tag.get(attr): None when the tag lacks the attribute
AttrOf(tag, attr) == IF attr \in DOMAIN tag.attrs THEN tag.attrs[attr] ELSE NoneValue

\* the tags html.parser and BeautifulSoup close at once
VOID_TAGS == {"meta", "img", "br", "link"}

\* the attributes of a tag as the page writes them
AttrMarkup(tag) ==
    LET Write(attr) == IF AttrOf(tag, attr) = NoneValue THEN ""
                       ELSE " " \o attr \o "=\"" \o tag.attrs[attr] \o "\""
    IN  Write("id") \o Write("class") \o Write("name") \o Write("content")
            \o Write("alt") \o Write("href")

RECURSIVE WebMarkupOf(_, _)
\* the markup of the listed tags, each with the tags inside it
WebMarkupOf(doc, idx) ==
    IF idx = <<>> THEN ""
    ELSE LET i == Head(idx)
             kids == SelectSeq([j \in 1..Len(doc) |-> j], LAMBDA j : doc[j].parent = i)
         IN  "<" \o doc[i].name \o AttrMarkup(doc[i]) \o ">"
                 \o (IF doc[i].name \in VOID_TAGS THEN ""
                     ELSE doc[i].string \o WebMarkupOf(doc, kids)
                              \o "</" \o doc[i].name \o ">")
                 \o WebMarkupOf(doc, Tail(idx))

\* html_content of a page, which is also str(soup)
WebMarkup(doc) ==
    WebMarkupOf(doc, SelectSeq([j \in 1..Len(doc) |-> j], LAMBDA j : doc[j].parent = 0))

\* soup.find(names, ...): the first tag with one of the names among those
\* passing the test, 0 when there is none
WebFind(doc, names, passing) ==
    FirstOf(SelectSeq([j \in 1..Len(doc) |-> j],
                      LAMBDA j : doc[j].name \in names /\ j \in passing))

\* the tags whose attribute holds the word in any case:
\* attr=re.compile(word, re.I)
AttrMatches(doc, attr, word) ==
    {j \in 1..Len(doc) : /\ AttrOf(doc[j], attr) # NoneValue
                         /\ Contains(Lower(AttrOf(doc[j], attr)), word)}

----------------------------------------------------------------------------
(* scraper.extract_company_name *)

\* str.upper() on the letters
UpperOf ==
    [c \in CharsOf(LOWERCASE) |->
        LET i == CHOOSE i \in 1..Len(LOWERCASE) : SubSeq(LOWERCASE, i, i) = c
        IN  SubSeq(UPPERCASE, i, i)]

UpperChar(c) == IF c \in DOMAIN UpperOf THEN UpperOf[c] ELSE c

IsLetter(c) == c \in DOMAIN UpperOf \/ c \in DOMAIN LowerOf

RECURSIVE TitleRange(_, _, _)
\* str.title() on the characters lo..hi: a letter after a letter is lowered,
\* any other letter is raised
TitleRange(s, lo, hi) ==
    IF lo > hi THEN ""
    ELSE IF lo = hi
    THEN (IF lo > 1 /\ IsLetter(SubSeq(s, lo - 1, lo - 1))
          THEN LowerChar(SubSeq(s, lo, lo)) ELSE UpperChar(SubSeq(s, lo, lo)))
    ELSE LET mid == (lo + hi) \div 2
         IN  TitleRange(s, lo, mid) \o TitleRange(s, mid + 1, hi)

\* str.title()
Title(s) == TitleRange(s, 1, Len(s))

\* s.split(sep)[0]
FirstPart(s, sep) ==
    LET hits == {i \in 1..Len(s) : StartsAt(s, i, sep)}
    IN  IF hits = {} THEN s
        ELSE SubSeq(s, 1, (CHOOSE i \in hits : \A h \in hits : i <= h) - 1)

\* urlparse(url).netloc of a URL with a scheme: what follows :// up to the
\* first of / ? #, empty when :// does not follow the scheme
Netloc(url) ==
    LET scheme == FirstPart(url, ":")
        rest == SubSeq(url, Len(scheme) + 2, Len(url))
    IN  IF scheme = url \/ ~StartsWith(rest, "//") THEN ""
        ELSE LET host == SubSeq(rest, 3, Len(rest))
             IN  FirstPart(FirstPart(FirstPart(host, "/"), "?"), "#")

\* the longest name that is a candidate is shorter than this
NAME_LIMIT == 100

UNKNOWN_COMPANY == "Unknown Company"

\* `len(name) <= 100` in the place of `len(name) < 100`
NameEligible_AtLimit(name) == ~Falsy(name) /\ Len(name) <= NAME_LIMIT

\* the test of one candidate: `name and len(name) < 100`
NameEligible(name) == ~Falsy(name) /\ Len(name) < NAME_LIMIT

\* [header_heading, first_h1_text, logo_alt, title, domain_company]
NameSources(doc, domain_name) ==
    LET title_tag == WebFind(doc, {"title"}, 1..Len(doc))
        title == IF title_tag = 0 THEN NoneValue ELSE StringOf(doc, title_tag)
        logo == WebFind(doc, {"img"}, AttrMatches(doc, "alt", "logo"))
        logo_alt == IF logo = 0 THEN NoneValue ELSE AttrOf(doc[logo], "alt")
        header == WebFind(doc, {"header"}, 1..Len(doc))
        heading == IF header = 0 THEN 0
                   ELSE FirstOf(FindAll(doc, header, {"h1", "h2"}, 1..Len(doc)))
        header_heading == StrippedTextOrNone(doc, heading)
        first_h1_text == StrippedTextOrNone(doc, WebFind(doc, {"h1"}, 1..Len(doc)))
        domain_company == Title(FirstPart(domain_name, "."))
    IN  <<header_heading, first_h1_text, logo_alt, title, domain_company>>

\* max(candidates, key=len) in the place of min
ShortestOf_Longest(candidates) ==
    candidates[CHOOSE i \in 1..Len(candidates) :
                   \A j \in 1..Len(candidates) : Len(candidates[j]) <= Len(candidates[i])]

\* min(candidates, key=len): the first of the shortest candidates
ShortestOf(candidates) ==
    candidates[CHOOSE i \in 1..Len(candidates) :
                   /\ \A j \in 1..Len(candidates) : Len(candidates[i]) <= Len(candidates[j])
                   /\ \A j \in 1..(i - 1) : Len(candidates[j]) > Len(candidates[i])]

\* extract_company_name(soup, domain_name)
ExtractCompanyName(doc, domain_name) ==
    LET sources == NameSources(doc, domain_name)
        candidates == SelectSeq(sources, NameEligible)
        domain_company == sources[Len(sources)]
    IN  IF candidates # <<>> THEN ShortestOf(candidates)
        ELSE IF Falsy(domain_company) THEN UNKNOWN_COMPANY ELSE domain_company

----------------------------------------------------------------------------
(* scraper.MyHTMLParser: the streaming parser fed with html_content *)

RECURSIVE EventsOf(_, _)
\* the calls HTMLParser.feed makes for the listed tags: handle_starttag,
\* handle_data for the text, the calls of the tags inside, handle_endtag
EventsOf(doc, idx) ==
    IF idx = <<>> THEN <<>>
    ELSE LET i == Head(idx)
             kids == SelectSeq([j \in 1..Len(doc) |-> j], LAMBDA j : doc[j].parent = i)
         IN  <<[ev |-> "starttag", tag |-> doc[i].name]>>
                 \o (IF doc[i].name \in VOID_TAGS THEN <<>>
                     ELSE (IF doc[i].string = "" THEN <<>>
                           ELSE <<[ev |-> "data", data |-> doc[i].string]>>)
                          \o EventsOf(doc, kids)
                          \o <<[ev |-> "endtag", tag |-> doc[i].name]>>)
                 \o EventsOf(doc, Tail(idx))

\* the calls of feed(html_content)
Events(doc) ==
    EventsOf(doc, SelectSeq([j \in 1..Len(doc) |-> j], LAMBDA j : doc[j].parent = 0))

\* MyHTMLParser.__init__
ParserInit ==
    [paragraphs |-> <<>>, contact_info |-> <<>>, services |-> <<>>, products |-> <<>>,
     company_name |-> NoneValue, capture |-> FALSE, headings |-> <<>>,
     current_tag |-> NoneValue]

\* MyHTMLParser.handle_starttag
HandleStarttag(parser, tag) ==
    [parser EXCEPT !.current_tag = tag,
                   !.capture = IF tag \in {"p", "a", "h1", "h2", "h3"} THEN TRUE ELSE @]

\* MyHTMLParser.handle_endtag
HandleEndtag(parser, tag) ==
    [parser EXCEPT !.current_tag = NoneValue,
                   !.capture = IF tag \in {"p", "a", "h1", "h2", "h3"} THEN FALSE ELSE @]

\* MyHTMLParser.handle_data
HandleData(parser, data) ==
    IF ~parser.capture THEN parser
    ELSE LET text == Strip(data)
             headings == IF parser.current_tag \in {"h1", "h2", "h3"}
                         THEN Append(parser.headings, text) ELSE parser.headings
             p1 == [parser EXCEPT !.headings = headings]
         IN  IF Falsy(parser.company_name) /\ headings # <<>>
             THEN [p1 EXCEPT !.company_name = headings[1]]
             ELSE IF \/ ReSearch(text, PARSER_EMAIL_PATTERN)
                     \/ ReSearch(text, PARSER_PHONE_PATTERN)
                     \/ ReSearch(text, PARSER_ADDRESS_PATTERN)
             THEN [p1 EXCEPT !.contact_info = Append(@, text)]
             ELSE IF Contains(Lower(text), "service")
             THEN [p1 EXCEPT !.services = Append(@, text)]
             ELSE IF Contains(Lower(text), "product") \/ Contains(Lower(text), "offer")
             THEN [p1 EXCEPT !.products = Append(@, text)]
             ELSE [p1 EXCEPT !.paragraphs = Append(@, text)]

RECURSIVE Feed(_, _)
\* the parser after the calls
Feed(parser, events) ==
    IF events = <<>> THEN parser
    ELSE LET e == Head(events)
         IN  Feed(IF e.ev = "starttag" THEN HandleStarttag(parser, e.tag)
                  ELSE IF e.ev = "endtag" THEN HandleEndtag(parser, e.tag)
                  ELSE HandleData(parser, e.data),
                  Tail(events))

----------------------------------------------------------------------------
(* scraper.clean_text and scraper.extract_services_products *)

RECURSIVE CollapseRange(_, _, _)
\* re.sub(r'\s+', ' ', text) on the characters lo..hi: a run of whitespace
\* leaves one space, written at its first character
CollapseRange(text, lo, hi) ==
    IF lo > hi THEN ""
    ELSE IF lo = hi
    THEN (IF SubSeq(text, lo, lo) \notin WHITESPACE THEN SubSeq(text, lo, lo)
          ELSE IF lo > 1 /\ SubSeq(text, lo - 1, lo - 1) \in WHITESPACE THEN ""
          ELSE " ")
    ELSE LET mid == (lo + hi) \div 2
         IN  CollapseRange(text, lo, mid) \o CollapseRange(text, mid + 1, hi)

\* clean_text(text)
CleanText(text) ==
    IF Falsy(text) THEN "" ELSE Strip(CollapseRange(text, 1, Len(text)))

RECURSIVE SplitLines(_)
\* re.split(r'\n+', text), without the empty pieces
SplitLines(text) ==
    LET first == FirstPart(text, "\n")
        rest == SubSeq(text, Len(first) + 2, Len(text))
    IN  (IF first = "" THEN <<>> ELSE <<first>>)
            \o (IF Len(first) >= Len(text) THEN <<>> ELSE SplitLines(rest))

\* re.search(r'\b(w1|w2|...)\b', s, re.I) is not None
WordSearch(s, words) ==
    LET l == Lower(s)
    IN  \E w \in words : \E i \in 1..(Len(l) - Len(w) + 1) :
            /\ StartsAt(l, i, w)
            /\ i = 1 \/ SubSeq(l, i - 1, i - 1) \notin WORD_CHARS
            /\ i + Len(w) > Len(l) \/ SubSeq(l, i + Len(w), i + Len(w)) \notin WORD_CHARS

SERVICE_WORDS == {"service", "solution", "offering", "expertise", "consulting", "support"}

PRODUCT_WORDS == {"product", "tool", "software", "platform", "app", "application"}

\* a paragraph is kept when it is longer than PARA_MIN and shorter than PARA_MAX
PARA_MIN == 20

PARA_MAX == 500

\* the number of services and of products a record carries at most
LIST_CAP == 5
\* no slice: the whole list
Prefix_Whole(lst, n) == lst

\* lst[:n]
Prefix(lst, n) == SubSeq(lst, 1, IF Len(lst) < n THEN Len(lst) ELSE n)

\* the paragraphs, cleaned, that mention one of the words and have the length
MatchingParagraphs(text, words) ==
    LET cleaned == [i \in 1..Len(SplitLines(text)) |-> CleanText(SplitLines(text)[i])]
    IN  SelectSeq(cleaned, LAMBDA para : /\ WordSearch(para, words)
                                         /\ Len(para) > PARA_MIN
                                         /\ Len(para) < PARA_MAX)

\* the lists are returned whole
ExtractServicesProducts_Uncut(text) ==
    [services |-> MatchingParagraphs(text, SERVICE_WORDS),
     products |-> MatchingParagraphs(text, PRODUCT_WORDS)]

\* extract_services_products(text, company_name): (services, products)
ExtractServicesProducts(text) ==
    [services |-> Prefix(MatchingParagraphs(text, SERVICE_WORDS), LIST_CAP),
     products |-> Prefix(MatchingParagraphs(text, PRODUCT_WORDS), LIST_CAP)]

----------------------------------------------------------------------------
(* scraper.scrape_website.  The record carries the fields company_name,
   description, contact_info.emails, services, products, url and domain.
   list(set(...)) keeps one of each element in an order the interpreter
   chooses: emails is the set of the elements. *)

\* the longest description a record carries
DESCRIPTION_MAX == 500

\* the elements of a list
Elements(lst) == {lst[i] : i \in 1..Len(lst)}

\* extract_emails(text)
ExtractEmails(text) == Elements(ReFindAll(text, EMAIL_PATTERN))

\* the emails of parser.contact_info: the first match of each entry
ParsedEmails(contact_info) ==
    {ReSearchGroup(contact_info[i], EMAIL_PATTERN) : i \in 1..Len(contact_info)}
        \ {NoneValue}

\* lst + [x for x in more if x not in lst]
Merge(lst, more) == lst \o SelectSeq(more, LAMBDA x : x \notin Elements(lst))

\* the description: the text of the about section, else the meta description
DescriptionOf(doc, meta_description) ==
    LET by_id == WebFind(doc, {doc[j].name : j \in 1..Len(doc)}, AttrMatches(doc, "id", "about"))
        by_section == WebFind(doc, {"section"}, AttrMatches(doc, "class", "about"))
        by_div == WebFind(doc, {"div"}, AttrMatches(doc, "class", "about"))
        about_section == IF by_id # 0 THEN by_id
                         ELSE IF by_section # 0 THEN by_section ELSE by_div
        description == IF about_section # 0 THEN CleanText(TextOf(doc, about_section))
                       ELSE ""
    IN  IF Falsy(description) /\ meta_description # 0
                              /\ AttrOf(doc[meta_description], "content") # NoneValue
        THEN AttrOf(doc[meta_description], "content")
        ELSE description

\* scrape_website(url), where trafilatura.fetch_url and trafilatura.extract
\* answer answer.downloaded and answer.clean_content and urlopen answers
\* answer.page
ScrapeWebsite(url, answer) ==
    IF ~answer.downloaded THEN PyNone
    ELSE IF Falsy(answer.clean_content) THEN PyNone
    ELSE IF answer.page.raises THEN PyNone
    ELSE LET domain_name == Netloc(url)
             clean_content == answer.clean_content
             doc == answer.page.doc
             parser == Feed(ParserInit, Events(doc))
             found_name == ExtractCompanyName(doc, domain_name)
             company_name == IF found_name = UNKNOWN_COMPANY /\ ~Falsy(parser.company_name)
                             THEN parser.company_name ELSE found_name
             meta_description ==
                 WebFind(doc, {"meta"},
                         {j \in 1..Len(doc) : AttrOf(doc[j], "name") = "description"})
             meta_text == IF meta_description # 0
                             /\ AttrOf(doc[meta_description], "content") # NoneValue
                          THEN AttrOf(doc[meta_description], "content") ELSE ""
             full_text == clean_content \o " " \o meta_text \o " " \o WebMarkup(doc)
             emails == ExtractEmails(full_text) \cup ParsedEmails(parser.contact_info)
             bs == ExtractServicesProducts(clean_content)
             services == Prefix(Merge(bs.services, parser.services), LIST_CAP)
             products == Prefix(Merge(bs.products, parser.products), LIST_CAP)
             description == DescriptionOf(doc, meta_description)
         IN  PyDict([company_name |-> company_name,
                     description |-> Prefix(description, DESCRIPTION_MAX),
                     contact_info |-> [emails |-> emails],
                     services |-> services,
                     products |-> products,
                     url |-> url,
                     domain |-> domain_name])

----------------------------------------------------------------------------
(* Inputs of scrape_website *)

RECURSIVE Repeat(_, _)
\* s * n
Repeat(s, n) ==
    IF n <= 0 THEN ""
    ELSE IF n = 1 THEN s
    ELSE Repeat(s, n \div 2) \o Repeat(s, n - n \div 2)

\* a host name of 100 letters
LONG_HOST == Repeat("acmelabs", 12) \o "abcd"

\* the URLs scrape_website is called with
ScrapeUrls ==
    { "https://acme.com", "https://www.acme.com/about?ref=home", "https://",
      "https://" \o LONG_HOST \o ".com/" }

\* the text trafilatura.extract returns
TEXT_SERVICES ==
    "Acme builds rockets for everyone.\n\n"
        \o "Our launch  service takes cargo to orbit.\n"
        \o "The tracking software runs in the browser.\n"
        \o "Service\n"

TEXT_REPEATED ==
    "Our launch service takes cargo to orbit.\n"
        \o "Our launch service takes cargo to orbit.\n"
        \o "The tracking app is a free product.\n"
        \o "The tracking app is a free product.\n"
        \o "Write to Sales@acme.com or to sales@acme.com"

TEXT_MANY ==
    "Consulting for teams that write launch software.\n"
        \o "Support for the ground crew app around the clock.\n"
        \o "A payload integration service and its tool.\n"
        \o "Expertise in our orbital guidance platform.\n"
        \o "A turnkey solution and product for launch sites.\n"
        \o "An offering for universities: our application.\n"
        \o "A mission planning platform for operators.\n"

TEXT_PLAIN == "Acme was started in a garage by two friends."

CleanContents == {TEXT_SERVICES, TEXT_REPEATED, TEXT_MANY, TEXT_PLAIN}

\* a company page with a title, a meta description, a header and a mail link
PAGE_ACME ==
    << WebTag("title", 0, EmptyDict, "Acme Corporation International"),
       WebTag("meta", 0, [name |-> "description",
                          content |-> "Acme builds rockets. Mail Info@Acme.com"], ""),
       WebTag("header", 0, EmptyDict, ""),
       WebTag("h1", 3, EmptyDict, " Acme "),
       WebTag("p", 0, EmptyDict, "We provide a launch service"),
       WebTag("a", 0, [href |-> "mailto:info@acme.com"], "info@acme.com") >>

\* a page that says the same thing several times
PAGE_REPEATS ==
    << WebTag("h1", 0, EmptyDict, "Bolt"),
       WebTag("p", 0, EmptyDict, "Our repair service is open daily"),
       WebTag("p", 0, EmptyDict, "Our repair service is open daily"),
       WebTag("p", 0, EmptyDict, "We offer spare parts"),
       WebTag("p", 0, EmptyDict, "We offer spare parts"),
       WebTag("p", 0, EmptyDict, "Ask Help@Bolt.io"),
       WebTag("p", 0, EmptyDict, "or help@bolt.io") >>

\* a page with a logo and an about section of 612 characters
PAGE_ABOUT_LONG ==
    << WebTag("img", 0, [alt |-> "Cargo Lines Logo"], ""),
       WebTag("h2", 0, EmptyDict, "Cargo Lines moves freight"),
       WebTag("div", 0, [id |-> "About-Us"], Repeat("we  move freight ", 36)),
       WebTag("p", 3, EmptyDict, "Customer service desk") >>

\* a page whose meta description has 510 characters and whose about section
\* is empty
PAGE_META_LONG ==
    << WebTag("meta", 0, [name |-> "description",
                          content |-> Repeat("fast ships ", 46) \o "now."], ""),
       WebTag("section", 0, [class |-> "hero about"], "  "),
       WebTag("h3", 0, EmptyDict, "Harbor"),
       WebTag("p", 0, EmptyDict, "Products and offers") >>

\* a page without a title, a logo or a heading
PAGE_BARE == << WebTag("p", 0, EmptyDict, "Under construction") >>

\* a page whose title has 100 characters and whose first heading has 120
PAGE_LONG_NAMES ==
    << WebTag("title", 0, EmptyDict, Repeat("Acme Labs ", 10)),
       WebTag("h1", 0, EmptyDict, Repeat("Acme Labs ", 12) \o "x"),
       WebTag("img", 0, [alt |-> "logo"], ""),
       WebTag("p", 0, EmptyDict, "Six support plans") >>

\* a page whose only name is a title of exactly 100 characters
PAGE_TITLE_AT_LIMIT ==
    << WebTag("title", 0, EmptyDict, Repeat("Acme Labs ", 9) \o "Acme Labs."),
       WebTag("p", 0, EmptyDict, "Opening soon") >>

WebPages ==
    {PAGE_ACME, PAGE_REPEATS, PAGE_ABOUT_LONG, PAGE_META_LONG, PAGE_BARE, PAGE_LONG_NAMES,
     PAGE_TITLE_AT_LIMIT}

\* the answers of the three downloads of scrape_website
ScrapeAnswers ==
    {[downloaded |-> FALSE]}
    \cup {[downloaded |-> TRUE, clean_content |-> NoneValue]}
    \cup {[downloaded |-> TRUE, clean_content |-> t, page |-> FetchRaised] :
            t \in CleanContents}
    \cup {[downloaded |-> TRUE, clean_content |-> t,
           page |-> [raises |-> FALSE, doc |-> d]] : t \in CleanContents, d \in WebPages}

\* the calls of scrape_website
ScrapeCalls == [url : ScrapeUrls, answer : ScrapeAnswers]

\* ScrapeWebsite on the calls, computed once
ScrapeWebsiteOf ==
    Tabulated([c \in ScrapeCalls |-> ScrapeWebsite(c.url, c.answer)])

\* the calls of extract_company_name
CompanyNameCalls == [doc : WebPages, domain_name : {Netloc(u) : u \in ScrapeUrls}]

\* ExtractCompanyName on the calls, computed once
CompanyNameOf ==
    Tabulated([c \in CompanyNameCalls |-> ExtractCompanyName(c.doc, c.domain_name)])

----------------------------------------------------------------------------
(* The website scraper: one action per function *)

\* bs_services and bs_products, the lists extract_services_products hands to
\* the merge; empty for a call that left before it
TextPass(c) ==
    IF ScrapeWebsiteOf[c] = PyNone THEN [services |-> <<>>, products |-> <<>>]
    ELSE ExtractServicesProducts(c.answer.clean_content)

\* TextPass on the calls, computed once
TextPassOf == Tabulated([c \in ScrapeCalls |-> TextPass(c)])

scrape_website ==
    \E c \in ScrapeCalls :
        /\ call' = [op |-> "scrape_website", url |-> c.url, answer |-> c.answer,
                    bs |-> TextPassOf[c], ret |-> ScrapeWebsiteOf[c]]
        /\ UNCHANGED <<auth_state, cookies>>

extract_company_name ==
    \E c \in CompanyNameCalls :
        /\ call' = [op |-> "extract_company_name", doc |-> c.doc,
                    domain_name |-> c.domain_name, ret |-> CompanyNameOf[c]]
        /\ UNCHANGED <<auth_state, cookies>>

NextScrape ==
    \/ scrape_website
    \/ extract_company_name

SpecScrape == Init /\ [][NextScrape]_vars

----------------------------------------------------------------------------
(* Claims about scraper.scrape_website and scraper.extract_company_name *)

\* the last call was scrape_website and it returned a record
ScrapeReturned ==
    /\ call.op = "scrape_website"
    /\ call.ret[1] = "dict"

\* C11: every record scrape_website returns has at most 5 services, at most
\* 5 products and a description of at most 500 characters.
C11_RecordBounded ==
    ScrapeReturned =>
        /\ Len(call.ret[2].services) <= LIST_CAP
        /\ Len(call.ret[2].products) <= LIST_CAP
        /\ Len(call.ret[2].description) <= DESCRIPTION_MAX

\* a record cut on every side: the text pass matched more than 5 service
\* paragraphs and more than 5 product paragraphs, the about section has more than 500 characters, and the record
\* carries exactly 5 services, 5 products and 500 characters
C11_Witness ==
    /\ ScrapeReturned
    /\ Len(MatchingParagraphs(call.answer.clean_content, SERVICE_WORDS)) > LIST_CAP
    /\ Len(MatchingParagraphs(call.answer.clean_content, PRODUCT_WORDS)) > LIST_CAP
    /\ Len(DescriptionOf(call.answer.page.doc, 0)) > DESCRIPTION_MAX
    /\ Len(call.ret[2].services) = LIST_CAP
    /\ Len(call.ret[2].products) = LIST_CAP
    /\ Len(call.ret[2].description) = DESCRIPTION_MAX

\* C12: in every record scrape_website returns, no two contact emails are
\* equal after case-normalization.
C12_NoCaseDuplicateEmails ==
    ScrapeReturned =>
        \A a, b \in call.ret[2].contact_info.emails : Lower(a) = Lower(b) => a = b

\* C13: in every record scrape_website returns, no two services entries are
\* the same string.
C13_NoDuplicateServices ==
    ScrapeReturned =>
        \A i, j \in 1..Len(call.ret[2].services) :
            call.ret[2].services[i] = call.ret[2].services[j] => i = j

\* the last call was extract_company_name
CompanyNameReturned == call.op = "extract_company_name"

\* the candidates of the last call that are neither None nor empty and pass
\* the length filter
Survivors ==
    LET sources == NameSources(call.doc, call.domain_name)
    IN  {sources[i] : i \in {k \in 1..Len(sources) :
                                /\ sources[k] \notin {NoneValue, ""}
                                /\ Len(sources[k]) < NAME_LIMIT}}

\* the domain-derived fallback of the last call
DomainFallback == Title(FirstPart(call.domain_name, "."))

\* C14: extract_company_name returns a surviving candidate no longer than
\* any other surviving candidate; when no candidate survives it returns the
\* domain-derived fallback, or 'Unknown Company' when that fallback is empty.
C14_ShortestSurvivor ==
    CompanyNameReturned =>
        IF Survivors # {}
        THEN /\ call.ret \in Survivors
             /\ \A s \in Survivors : Len(call.ret) <= Len(s)
        ELSE call.ret = (IF DomainFallback = "" THEN "Unknown Company" ELSE DomainFallback)

\* the candidates 'Acme Corporation International' and 'Acme' survive and
\* 'Acme' is returned
C14_Witness ==
    /\ CompanyNameReturned
    /\ {"Acme Corporation International", "Acme"} \subseteq Survivors
    /\ call.ret = "Acme"

\* no candidate survives and the fallback is empty: 'Unknown Company'
C14_UnknownCompany ==
    /\ CompanyNameReturned
    /\ Survivors = {}
    /\ DomainFallback = ""
    /\ call.ret = "Unknown Company"

\* no candidate survives and the fallback, of 100 characters, is returned
C14_LongFallback ==
    /\ CompanyNameReturned
    /\ Survivors = {}
    /\ Len(DomainFallback) >= NAME_LIMIT
    /\ call.ret = DomainFallback

\* the candidates of the last call that are neither None nor empty and have
\* at most 100 characters
WithinLimit ==
    LET sources == NameSources(call.doc, call.domain_name)
    IN  {sources[i] : i \in {k \in 1..Len(sources) :
                                /\ sources[k] \notin {NoneValue, ""}
                                /\ Len(sources[k]) <= NAME_LIMIT}}

\* C21: the length filter of extract_company_name discards exactly the
\* candidates longer than 100 characters: whenever some candidate has 100
\* characters or fewer, the returned name is one of those candidates and no
\* longer than any of them, a candidate of exactly 100 characters included.
C21_AtLimitEligible ==
    (CompanyNameReturned /\ WithinLimit # {}) =>
        /\ call.ret \in WithinLimit
        /\ \A s \in WithinLimit : Len(call.ret) <= Len(s)

\* C21 as the code has it: the length filter discards exactly the candidates
\* of 100 characters or more.  Whenever some candidate has fewer than 100
\* characters the returned name is one of those and no longer than any of
\* them; a name of 100 characters or more is returned only as the domain
\* fallback, when no candidate has fewer than 100.
C21_BelowLimitEligible ==
    CompanyNameReturned =>
        /\ Survivors # {} =>
              /\ Len(call.ret) < NAME_LIMIT
              /\ call.ret \in WithinLimit
              /\ \A s \in WithinLimit : Len(s) < NAME_LIMIT => Len(call.ret) <= Len(s)
        /\ Len(call.ret) >= NAME_LIMIT => (Survivors = {} /\ call.ret = DomainFallback)

\* the only candidate is a title of exactly 100 characters, the domain is
\* empty, and the title is not returned
C21_Witness ==
    /\ CompanyNameReturned
    /\ call.domain_name = ""
    /\ \E s \in WithinLimit : Len(s) = NAME_LIMIT
    /\ Survivors = {}
    /\ call.ret = UNKNOWN_COMPANY

\* the first five entries of a list
FirstFive(lst) == SubSeq(lst, 1, IF Len(lst) < 5 THEN Len(lst) ELSE 5)

\* every matching paragraph of the text pass of the last call
AllTextServices == MatchingParagraphs(call.answer.clean_content, SERVICE_WORDS)
AllTextProducts == MatchingParagraphs(call.answer.clean_content, PRODUCT_WORDS)

\* what the streaming parser found on the page of the last call
ParserOfCall == Feed(ParserInit, Events(call.answer.page.doc))

\* services + [s for s in more if s not in services], on the whole lists
MergedWhole(lst, more) ==
    lst \o SelectSeq(more, LAMBDA x : \A i \in 1..Len(lst) : lst[i] # x)

\* C24: services and products are cut to 5 only at final record assembly:
\* the lists of the text pass reach the merge whole, with every matching
\* paragraph.
C24_MergeSeesWholeLists ==
    ScrapeReturned =>
        /\ call.bs.services = AllTextServices
        /\ call.bs.products = AllTextProducts

\* C24 as the code has it: the lists of the text pass are cut to 5 before
\* the merge and the merged lists are cut to 5 again; the lists of the record
\* are the first 5 of the merge of the whole lists all the same, so that an
\* entry of the parser is dropped only for repeating an entry of the text pass
\* or for standing beyond the fifth place of the merged list.
C24_CutBeforeAndAfterMerge ==
    ScrapeReturned =>
        /\ call.bs.services = FirstFive(AllTextServices)
        /\ call.bs.products = FirstFive(AllTextProducts)
        /\ call.ret[2].services = FirstFive(MergedWhole(AllTextServices, ParserOfCall.services))
        /\ call.ret[2].products = FirstFive(MergedWhole(AllTextProducts, ParserOfCall.products))

\* the text pass matched more than 5 service paragraphs, the parser found a
\* service that is none of them, the merge was handed 5, and the record holds
\* the first 5 of the text pass
C24_Witness ==
    /\ ScrapeReturned
    /\ Len(AllTextServices) > 5
    /\ \E i \in 1..Len(ParserOfCall.services) :
           \A j \in 1..Len(AllTextServices) : ParserOfCall.services[i] # AllTextServices[j]
    /\ Len(call.bs.services) = 5
    /\ call.ret[2].services = FirstFive(AllTextServices)

----------------------------------------------------------------------------
(* app.py: the routes scrape, api_scrape and api_batch_process.  A route
   reads its request, calls scrape_website, find_and_extract_linkedin_about
   or extract_linkedin_url, and answers.  The k-th call a route makes is
   answered by answers[k]: "ok" (a record, a success, a URL), "none" (None,
   success false) or "raise" (an exception).  trace lists the calls made, in
   order.  A JSON null and an absent form field are NoneValue. *)

PyList(l) == <<"list", l>>

\* the URL with 'https://' in front unless it starts with a scheme
WithScheme(url) ==
    IF StartsWith(url, "http://") \/ StartsWith(url, "https://") THEN url
    ELSE "https://" \o url

\* the payloads of the answers
COMPANY_DATA == [company_name |-> "Acme"]

FOUND_LINKEDIN_URL == "https://www.linkedin.com/company/acme"

FINDER_MESSAGE == "No LinkedIn URL found on website"

EXCEPTION_TEXT == "connection reset"

ATTRIBUTE_ERROR == "'NoneType' object has no attribute 'startswith'"

\* redirect(url_for('index')) after flash(message, 'danger')
Redirected(message) == [kind |-> "redirect", flash |-> message]

\* render_template('results.html', ...)
Rendered(data, url) == [kind |-> "results", data |-> data, url |-> url]

\* jsonify(body), status
Json(status, body) == [status |-> status, body |-> body]

\* the outcome of a route: the calls it made and its response
Outcome(trace, ret) == [trace |-> trace, ret |-> ret]

\* scrape(): request.form is form, the call it makes is answered by answer
Scrape(form, answer) ==
    LET url == form.url
        mode == IF form.mode = NoneValue THEN "direct" ELSE form.mode
    IN  IF Falsy(url) THEN Outcome(<<>>, Redirected("Please enter a valid URL"))
        ELSE LET full == WithScheme(url)
             IN  IF mode = "direct"
                 THEN Outcome(<< <<"scrape_website", full>> >>,
                              IF answer = "raise"
                              THEN Redirected("Error: " \o EXCEPTION_TEXT)
                              ELSE IF answer = "none"
                              THEN Redirected("Failed to extract data from the website")
                              ELSE Rendered(COMPANY_DATA, full))
                 ELSE IF mode = "find_linkedin"
                 THEN Outcome(<< <<"find_and_extract_linkedin_about", full>> >>,
                              IF answer = "raise"
                              THEN Redirected("Error: " \o EXCEPTION_TEXT)
                              ELSE IF answer = "none"
                              THEN Redirected("Failed to find LinkedIn profile: "
                                                  \o FINDER_MESSAGE)
                              ELSE Rendered(COMPANY_DATA, full))
                 ELSE Outcome(<<>>, Redirected("Invalid scraping mode: " \o mode))

\* not data or key not in data, for the JSON body data
Lacks(data, key) ==
    \/ data = PyNone
    \/ DOMAIN data[2] = {}
    \/ key \notin DOMAIN data[2]

\* data.get('mode', default)
ModeOf(data, default) ==
    IF "mode" \in DOMAIN data[2] THEN data[2]["mode"] ELSE default

\* api_scrape(): request.get_json() is data
ApiScrape(data, answer) ==
    IF Lacks(data, "url")
    THEN Outcome(<<>>, Json(400, [success |-> FALSE, error |-> "URL parameter is required"]))
    ELSE LET url == data[2]["url"]
             mode == ModeOf(data, "direct")
         IN  IF url = NoneValue THEN Outcome(<<>>, PyRaise(ATTRIBUTE_ERROR))
             ELSE LET full == WithScheme(url)
                  IN  IF mode = "direct"
                      THEN Outcome(<< <<"scrape_website", full>> >>,
                               IF answer = "raise"
                               THEN Json(500, [success |-> FALSE, error |-> EXCEPTION_TEXT])
                               ELSE IF answer = "none"
                               THEN Json(500, [success |-> FALSE,
                                               error |-> "Failed to extract data from the website"])
                               ELSE Json(200, [success |-> TRUE, data |-> COMPANY_DATA]))
                      ELSE IF mode = "find_linkedin"
                      THEN Outcome(<< <<"find_and_extract_linkedin_about", full>> >>,
                               IF answer = "raise"
                               THEN Json(500, [success |-> FALSE, error |-> EXCEPTION_TEXT])
                               ELSE IF answer = "none"
                               THEN Json(404, [success |-> FALSE, error |-> FINDER_MESSAGE,
                                               website_url |-> full,
                                               linkedin_url |-> NoneValue])
                               ELSE Json(200, [success |-> TRUE, website_url |-> full,
                                               linkedin_url |-> FOUND_LINKEDIN_URL,
                                               data |-> COMPANY_DATA]))
                      ELSE Outcome(<<>>, Json(400, [success |-> FALSE,
                                                    error |-> "Invalid mode: " \o mode
                                                        \o ". Use \"direct\" or \"find_linkedin\"."]))

\* the largest batch api_batch_process takes
BATCH_MAX == 20

BATCH_MODES == {"find_linkedin", "linkedin_only", "direct"}

\* len(urls) >= 20
TooMany_AtCap(urls) == Len(urls) >= BATCH_MAX

\* len(urls) > 20
TooMany(urls) == Len(urls) > BATCH_MAX

\* results.insert(0, entry)
Appended_InFront(results, entry) == <<entry>> \o results

\* results.append(entry)
Appended(results, entry) == Append(results, entry)

\* the function a batch mode calls
BatchFunction(mode) ==
    IF mode = "find_linkedin" THEN "find_and_extract_linkedin_about"
    ELSE IF mode = "linkedin_only" THEN "extract_linkedin_url"
    ELSE "scrape_website"

\* the entry of one URL of a batch in a mode, for the answer of its call
BatchEntry(mode, url, answer) ==
    IF answer = "raise" THEN [success |-> FALSE, url |-> url, error |-> EXCEPTION_TEXT]
    ELSE IF mode = "find_linkedin"
    THEN IF answer = "ok"
         THEN [success |-> TRUE, website_url |-> url, linkedin_url |-> FOUND_LINKEDIN_URL,
               company_data |-> COMPANY_DATA]
         ELSE [success |-> FALSE, website_url |-> url, error |-> FINDER_MESSAGE]
    ELSE IF mode = "linkedin_only"
    THEN IF answer = "ok"
         THEN [success |-> TRUE, website_url |-> url, linkedin_url |-> FOUND_LINKEDIN_URL]
         ELSE [success |-> FALSE, website_url |-> url, error |-> "No LinkedIn URL found"]
    ELSE IF answer = "ok"
         THEN [success |-> TRUE, url |-> url, data |-> COMPANY_DATA]
         ELSE [success |-> FALSE, url |-> url, error |-> "Failed to extract data"]

\* the number of entries of results whose success is flag
CountSuccess(results, flag) ==
    Cardinality({i \in 1..Len(results) : results[i].success = flag})

\* the loop of api_batch_process from the i-th URL on
RECURSIVE BatchLoop(_, _, _, _, _, _)
BatchLoop(urls, mode, answers, i, results, trace) ==
    IF i > Len(urls)
    THEN Outcome(trace, Json(200, [success |-> TRUE, results |-> results,
                                   total |-> Len(urls),
                                   successful |-> CountSuccess(results, TRUE),
                                   failed |-> CountSuccess(results, FALSE)]))
    ELSE IF urls[i] = NoneValue
    THEN BatchLoop(urls, mode, answers, i + 1,
                   Appended(results, [success |-> FALSE, url |-> urls[i],
                                      error |-> ATTRIBUTE_ERROR]),
                   trace)
    ELSE IF mode \notin BATCH_MODES
    THEN Outcome(trace, Json(400, [success |-> FALSE,
                                   error |-> "Invalid mode: " \o mode
                                       \o ". Use \"find_linkedin\", \"linkedin_only\", or \"direct\"."]))
    ELSE LET full == WithScheme(urls[i])
             answer == answers[Len(trace) + 1]
         IN  BatchLoop(urls, mode, answers, i + 1,
                       Appended(results, BatchEntry(mode, full, answer)),
                       Append(trace, <<BatchFunction(mode), full>>))

\* api_batch_process(): request.get_json() is data
ApiBatchProcess(data, answers) ==
    IF Lacks(data, "urls")
    THEN Outcome(<<>>, Json(400, [success |-> FALSE,
                                  error |-> "URLs parameter is required as an array"]))
    ELSE LET urls == data[2]["urls"]
             mode == ModeOf(data, "find_linkedin")
         IN  IF urls[1] # "list"
             THEN Outcome(<<>>, Json(400, [success |-> FALSE,
                                           error |-> "URLs must be provided as an array"]))
             ELSE IF TooMany(urls[2])
             THEN Outcome(<<>>, Json(400, [success |-> FALSE,
                                           error |-> "Maximum 20 URLs allowed in batch mode"]))
             ELSE BatchLoop(urls[2], mode, answers, 1, <<>>, <<>>)

----------------------------------------------------------------------------
(* Inputs of the routes *)

\* the answers of a call
Answers == {"ok", "none", "raise"}

\* request.form of scrape()
Forms == [url : {NoneValue, "", "acme.com", "https://acme.com"},
          mode : {NoneValue, "direct", "find_linkedin", "fast"}]

\* request.get_json() of api_scrape()
ApiScrapeBodies ==
    {PyNone, PyDict(EmptyDict), PyDict([mode |-> "direct"])}
    \cup {PyDict([url |-> u]) : u \in {NoneValue, "", "acme.com", "http://acme.com"}}
    \cup {PyDict([url |-> u, mode |-> m]) :
            u \in {NoneValue, "", "acme.com", "http://acme.com"},
            m \in {"direct", "find_linkedin", "fast"}}

\* n URLs, all different
SiteUrls(n) ==
    [i \in 1..n |-> "site-" \o SubSeq(LOWERCASE \o UPPERCASE, i, i) \o ".com"]

\* the lists of a batch: empty, short, with an empty URL, with a null, of
\* BATCH_MAX URLs and of one more
BatchLists ==
    { <<>>, <<"acme.com">>, <<"">>, <<"acme.com", "https://bolt.io">>,
      <<"acme.com", NoneValue, "bolt.io">>, <<"acme.com", "", "bolt.io">>,
      SiteUrls(BATCH_MAX), SiteUrls(BATCH_MAX + 1) }

\* request.get_json() of api_batch_process()
BatchBodies ==
    {PyNone, PyDict([mode |-> "direct"]), PyDict([urls |-> PyStr("https://acme.com")]),
     PyDict([urls |-> PyStr(""), mode |-> "direct"])}
    \cup {PyDict([urls |-> PyList(l)]) : l \in BatchLists}
    \cup {PyDict([urls |-> PyList(l), mode |-> m]) :
            l \in BatchLists, m \in {"linkedin_only", "direct", "fast"}}

\* the URLs of a body that are strings, in order
StringUrls(data) ==
    IF Lacks(data, "urls") \/ data[2]["urls"][1] # "list" THEN <<>>
    ELSE SelectSeq(data[2]["urls"][2], LAMBDA u : u # NoneValue)

\* the answers of the calls of a batch: every combination for a short list,
\* two patterns for a long one
AnswerSeqs(n) ==
    IF n <= 3 THEN [1..n -> Answers]
    ELSE {[i \in 1..n |-> "ok"],
          [i \in 1..n |-> IF i = 2 THEN "raise" ELSE IF i = n - 1 THEN "none" ELSE "ok"]}

----------------------------------------------------------------------------
(* The routes: one action per route *)

scrape ==
    \E form \in Forms, answer \in Answers :
        /\ call' = [op |-> "scrape", form |-> form, answers |-> <<answer>>,
                    trace |-> Scrape(form, answer).trace,
                    ret |-> Scrape(form, answer).ret]
        /\ UNCHANGED <<auth_state, cookies>>

api_scrape ==
    \E data \in ApiScrapeBodies, answer \in Answers :
        /\ call' = [op |-> "api_scrape", data |-> data, answers |-> <<answer>>,
                    trace |-> ApiScrape(data, answer).trace,
                    ret |-> ApiScrape(data, answer).ret]
        /\ UNCHANGED <<auth_state, cookies>>

api_batch_process ==
    \E data \in BatchBodies :
        \E answers \in AnswerSeqs(Len(StringUrls(data))) :
            /\ call' = [op |-> "api_batch_process", data |-> data, answers |-> answers,
                        trace |-> ApiBatchProcess(data, answers).trace,
                        ret |-> ApiBatchProcess(data, answers).ret]
            /\ UNCHANGED <<auth_state, cookies>>

NextApp ==
    \/ scrape
    \/ api_scrape
    \/ api_batch_process

SpecApp == Init /\ [][NextApp]_vars

----------------------------------------------------------------------------
(* Claims about the routes of app.py *)

\* the last call was api_batch_process with a body whose urls is a list
BatchWithList ==
    /\ call.op = "api_batch_process"
    /\ ~Lacks(call.data, "urls")
    /\ call.data[2]["urls"][1] = "list"

\* the list of the last batch
BatchUrls == call.data[2]["urls"][2]

\* the last batch was within the cap and in a mode of batch processing
BatchProcessed ==
    /\ BatchWithList
    /\ Len(BatchUrls) <= BATCH_MAX
    /\ ModeOf(call.data, "find_linkedin") \in BATCH_MODES

\* C15: a batch of more than 20 URLs is answered with an error and no call
\* is made for any of its URLs; a batch of at most 20 URLs is answered with
\* one result per URL, a call having been made for every URL that is a string.
C15_BatchCap ==
    /\ (BatchWithList /\ Len(BatchUrls) > BATCH_MAX) =>
            /\ call.trace = <<>>
            /\ call.ret.status = 400
            /\ call.ret.body.success = FALSE
    /\ BatchProcessed =>
            /\ call.ret.status = 200
            /\ Len(call.ret.body.results) = Len(BatchUrls)
            /\ Len(call.trace) = Len(StringUrls(call.data))

\* a batch of 21 URLs was rejected before any call
C15_Witness ==
    /\ BatchWithList
    /\ Len(BatchUrls) = BATCH_MAX + 1
    /\ call.ret.status = 400
    /\ call.trace = <<>>

\* a batch of 20 URLs was processed: 20 calls, 20 results
C15_AcceptedAtCap ==
    /\ BatchProcessed
    /\ Len(BatchUrls) = BATCH_MAX
    /\ Len(call.trace) = BATCH_MAX
    /\ Len(call.ret.body.results) = BATCH_MAX

\* C16: an empty URL submitted to scrape(), to api_scrape() or as an element
\* of a batch, and a batch whose urls is not a list, make no call: no call at
\* all for the two single-URL routes and for the batch that is not a list,
\* and no call for the empty URL for a batch that holds one.
C16_MalformedRejected ==
    /\ (call.op = "scrape" /\ Falsy(call.form.url)) => call.trace = <<>>
    /\ (call.op = "api_scrape" /\ ~Lacks(call.data, "url") /\ call.data[2]["url"] = "") =>
            call.trace = <<>>
    /\ (call.op = "api_batch_process" /\ ~Lacks(call.data, "urls")
            /\ call.data[2]["urls"][1] # "list") => call.trace = <<>>
    /\ BatchWithList =>
            \A k \in 1..Len(call.trace) : call.trace[k][2] # WithScheme("")

\* the URL an entry of results carries
EntryUrl(entry) == IF "url" \in DOMAIN entry THEN entry.url ELSE entry.website_url

\* the number of the call made for the i-th URL of the last batch
CallOf(i) == Cardinality({j \in 1..i : BatchUrls[j] # NoneValue})

\* C19: a batch within the cap gets one entry per URL, in the order of the
\* URLs; the calls are made in that order, one per URL that is a string; the
\* entry of a URL succeeds exactly when its own call answered, whatever the
\* calls of the other URLs did.
C19_BatchInOrder ==
    BatchProcessed =>
        /\ call.ret.status = 200
        /\ Len(call.ret.body.results) = Len(BatchUrls)
        /\ Len(call.trace) = Len(StringUrls(call.data))
        /\ \A i \in 1..Len(BatchUrls) :
            IF BatchUrls[i] = NoneValue
            THEN /\ call.ret.body.results[i].success = FALSE
                 /\ call.ret.body.results[i].url = NoneValue
            ELSE /\ EntryUrl(call.ret.body.results[i]) = WithScheme(BatchUrls[i])
                 /\ call.trace[CallOf(i)][2] = WithScheme(BatchUrls[i])
                 /\ call.ret.body.results[i].success = (call.answers[CallOf(i)] = "ok")

\* a batch of three URLs whose first call raised and whose second failed:
\* the third URL was still processed and succeeded
C19_Witness ==
    /\ BatchProcessed
    /\ Len(BatchUrls) = 3
    /\ call.answers = <<"raise", "none", "ok">>
    /\ Len(call.trace) = 3
    /\ call.ret.body.results[1].success = FALSE
    /\ call.ret.body.results[2].success = FALSE
    /\ call.ret.body.results[3].success = TRUE
    /\ EntryUrl(call.ret.body.results[3]) = WithScheme(BatchUrls[3])

----------------------------------------------------------------------------
(* The posts extractors.  A tag may carry a data-urn attribute. *)

\* a tag with a data-urn attribute
UrnTag(name, parent, class, urn, string) ==
    [name |-> name, parent |-> parent, class |-> class, action |-> NoneValue,
     href |-> NoneValue, string |-> string, data_urn |-> urn]

\* the tags whose .string matches one of the words, re.I
StringMatches(doc, words) ==
    {j \in 1..Len(doc) : /\ StringOf(doc, j) # NoneValue
                         /\ SearchAnyOf(StringOf(doc, j), words)}

\* the tags whose .string holds a count of the words, re.I
StringCounts(doc, words) ==
    {j \in 1..Len(doc) : /\ StringOf(doc, j) # NoneValue
                         /\ SearchCount(StringOf(doc, j), words) # NoneValue}

\* text[:n] + ('...' if len(text) > n else '')
Truncated(text, n) == IF Len(text) > n THEN SubSeq(text, 1, n) \o "..." ELSE text

REACTION_WORDS == {"reaction", "like"}

\* the post of a container: its text, and its date and reactions when found
PostOf(doc, c, text, date_words) ==
    LET date_element == FirstOf(FindAll(doc, c, {"span", "time"},
                                        StringMatches(doc, date_words)))
        reactions == FirstOf(FindAll(doc, c, {"span", "div"},
                                     StringCounts(doc, REACTION_WORDS)))
        found == IF reactions = 0 THEN NoneValue
                 ELSE SearchCount(TextOf(doc, reactions), REACTION_WORDS)
        p1 == [text |-> text]
        p2 == IF date_element = 0 THEN p1
              ELSE DictSet(p1, "date", Strip(TextOf(doc, date_element)))
    IN  IF found = NoneValue THEN p2 ELSE DictSet(p2, "reactions", found)

----------------------------------------------------------------------------
(* authenticated_linkedin_scraper: extract_company_posts *)

\* the record returned when the posts page could not be fetched
PostsFetchError ==
    [count |-> PyStr("Error fetching page"), posts |-> <<>>,
     authentication_required |-> TRUE,
     authentication_status |-> "Failed to authenticate"]

\* the item that stands for the posts behind the login
POSTS_PLACEHOLDER ==
    [text |-> "LinkedIn requires authentication to view detailed post content.",
     date |-> "Recently"]

POST_COUNT_WORDS == {"post", "update", "article"}

\* posts_data returned from the login branch
PostsBehindWall(posts_data, main) ==
    LET d1 == DictSet(posts_data, "authentication_required", TRUE)
        d2 == DictSet(d1, "posts", Append(d1["posts"], POSTS_PLACEHOLDER))
        found == IF Falsy(main.html_content) THEN NoneValue
                 ELSE PageCount(main.doc, POST_COUNT_WORDS)
        d3 == IF found = NoneValue THEN d2 ELSE DictSet(d2, "count", PyStr(found))
    IN  IF d3["count"] = PyInt(0) THEN DictSet(d3, "count", PyStr(COUNT_UNKNOWN))
        ELSE d3

AUTH_POST_TERMS ==
    {"feed-shared-update", "post-content", "update-components", "feed-shared-update-v2"}

\* Method 1: div and article tags with a post class
AuthPostMethod1(doc) ==
    FindAll(doc, 0, {"div", "article"},
            {j \in 1..Len(doc) : ClassHasAny(doc[j].class, AUTH_POST_TERMS)})

\* Method 2: div tags whose data-urn holds 'update'
AuthPostMethod2(doc) ==
    FindAll(doc, 0, {"div"},
            {j \in 1..Len(doc) : /\ UrnOf(doc[j]) # NoneValue
                                 /\ Contains(UrnOf(doc[j]), "update")})

AUTH_POST_DIRECT_TERMS == {"feed-shared-text", "update-content", "post-text"}

\* Method 3: p and div tags with a post-text class
AuthPostMethod3(doc) ==
    FindAll(doc, 0, {"p", "div"},
            {j \in 1..Len(doc) : ClassHasAny(doc[j].class, AUTH_POST_DIRECT_TERMS)})

\* one method of a cascade and the containers it found
Step(method, found) == [method |-> method, found |-> found]

RECURSIVE Gathered(_)
\* the containers the methods of a cascade put on the list, in order
Gathered(steps) ==
    IF steps = <<>> THEN <<>> ELSE Head(steps).found \o Gathered(Tail(steps))

\* the methods extract_company_posts runs on a page, in order: Method 2 and
\* Method 3 stand behind `if not post_containers`
AuthPostCascade(doc) ==
    LET s1 == <<Step(1, AuthPostMethod1(doc))>>
        s2 == IF Gathered(s1) = <<>> THEN Append(s1, Step(2, AuthPostMethod2(doc))) ELSE s1
    IN  IF Gathered(s2) = <<>> THEN Append(s2, Step(3, AuthPostMethod3(doc))) ELSE s2

\* post_containers
AuthPostContainers(doc) == Gathered(AuthPostCascade(doc))

AUTH_POST_TEXT_TERMS == {"feed-shared-text", "update-text", "post-text", "update-content"}

\* post_text of a container: the text of its post-text tag, else its own
\* text, stripped, with every run of whitespace made one space
AuthPostText(doc, c) ==
    LET post_text_element ==
            FirstOf(FindAll(doc, c, {"p", "div", "span"},
                    {j \in 1..Len(doc) : ClassHasAny(doc[j].class, AUTH_POST_TEXT_TERMS)}))
        text == IF post_text_element # 0 THEN Strip(TextOf(doc, post_text_element))
                ELSE Strip(TextOf(doc, c))
    IN  CollapseRange(text, 1, Len(text))

\* a post text is kept when it is longer than this
POST_TEXT_MIN == 10

\* the longest text a post of extract_company_posts carries
AUTH_POST_TEXT_MAX == 500

AUTH_POST_DATE_WORDS == {"ago", "day", "week", "month", "year", "hour", "minute"}

\* `post_text and len(post_text) > 10 and post_text not in unique_posts`
AuthPostAccepted(post_text, unique_posts) ==
    /\ ~Falsy(post_text)
    /\ Len(post_text) > POST_TEXT_MIN
    /\ post_text \notin unique_posts

RECURSIVE AuthPosts(_, _, _, _)
\* posts_data['posts'] after the loop over post_containers
AuthPosts(doc, containers, unique_posts, posts) ==
    IF containers = <<>> THEN posts
    ELSE LET post_text == AuthPostText(doc, Head(containers))
         IN  IF AuthPostAccepted(post_text, unique_posts)
             THEN AuthPosts(doc, Tail(containers), unique_posts \cup {post_text},
                            Append(posts, PostOf(doc, Head(containers),
                                                 Truncated(post_text, AUTH_POST_TEXT_MAX),
                                                 AUTH_POST_DATE_WORDS)))
             ELSE AuthPosts(doc, Tail(containers), unique_posts, posts)

POSTS_NONE_FOUND ==
    [text |-> "No posts found on this company page, despite successful authentication.",
     date |-> "Recently"]

\* posts_data returned from the extraction branch
PostsExtracted(posts_data, doc, authenticated) ==
    LET posts == AuthPosts(doc, AuthPostContainers(doc), {}, <<>>)
        d1 == DictSet(DictSet(posts_data, "posts", posts), "count", PyInt(Len(posts)))
    IN  IF posts = <<>> /\ authenticated
        THEN DictSet(d1, "posts", <<POSTS_NONE_FOUND>>)
        ELSE d1

\* extract_company_posts(linkedin_url) with the credentials of the
\* environment, where opener.open answers posts_answer for the posts page and
\* main_answer for the company page
ExtractCompanyPosts(linkedin_url, email, password, posts_answer, main_answer) ==
    IF NotCompanyUrl(linkedin_url) THEN PyNone
    ELSE LET page == FetchLinkedinPage(email, password, posts_answer)
         IN  IF page.raised THEN PyRaise(page.exc)
             ELSE IF Falsy(page.html_content) THEN PyDict(PostsFetchError)
             ELSE LET posts_data ==
                          [count |-> PyInt(0), posts |-> <<>>,
                           authentication_status |->
                               IF page.authenticated THEN "Authenticated"
                               ELSE "Not authenticated"]
                  IN  IF WallDetected(page.html_content, page.doc)
                      THEN PyDict(PostsBehindWall(posts_data,
                                      FetchLinkedinPage(email, password, main_answer)))
                      ELSE PyDict(PostsExtracted(posts_data, page.doc, page.authenticated))

\* a section extractor of this module reached its search for containers: the
\* URL is a company URL, the page was fetched and it is no login page
AuthCascadeReached(linkedin_url, email, password, answer) ==
    /\ ~NotCompanyUrl(linkedin_url)
    /\ ~FetchLinkedinPage(email, password, answer).raised
    /\ ~Falsy(FetchLinkedinPage(email, password, answer).html_content)
    /\ ~WallDetected(FetchLinkedinPage(email, password, answer).html_content,
                     FetchLinkedinPage(email, password, answer).doc)

----------------------------------------------------------------------------
(* linkedin_enhanced_scraper: extract_posts *)

OPEN_POST_TERMS == {"feed-shared-update", "post-view", "update-components", "feed-item"}

\* Method 1: div and article tags with a post class
OpenPostMethod1(doc) ==
    FindAll(doc, 0, {"div", "article"},
            {j \in 1..Len(doc) : ClassHasAny(doc[j].class, OPEN_POST_TERMS)})

\* the lambda given as attrs: `attrs and any(attr and 'post' in attr.lower()
\* for attr in attrs)`.  find_all takes an attrs that is no dict as a filter
\* on the class: the lambda is given a class value, a str, and `for attr in
\* attrs` goes through its characters
PostAttrTest(attrs) ==
    /\ ~Falsy(attrs)
    /\ \E i \in 1..Len(attrs) : Contains(Lower(SubSeq(attrs, i, i)), "post")

\* Method 2: div and article tags that pass the lambda
OpenPostMethod2(doc) ==
    FindAll(doc, 0, {"div", "article"},
            {j \in 1..Len(doc) : PostAttrTest(doc[j].class)})

\* the methods extract_posts runs on a page, in order: Method 2 stands behind
\* no test of post_containers
OpenPostCascade(doc) == <<Step(1, OpenPostMethod1(doc)), Step(2, OpenPostMethod2(doc))>>

\* post_containers
OpenPostContainers(doc) == Gathered(OpenPostCascade(doc))

OPEN_POST_TEXT_TERMS == {"feed-shared-text", "update-text", "post-text"}

\* the longest text a post of extract_posts carries
OPEN_POST_TEXT_MAX == 250

OPEN_POST_DATE_WORDS == {"ago", "day", "week", "month", "year", "hour"}

\* the text of the post-text tag of a container, stripped; None without one
OpenPostText(doc, c) ==
    StrippedTextOrNone(doc,
        FirstOf(FindAll(doc, c, {"p", "div", "span"},
                {j \in 1..Len(doc) : ClassHasAny(doc[j].class, OPEN_POST_TEXT_TERMS)})))

RECURSIVE OpenPosts(_, _, _, _)
\* posts_data['posts'] after the loop over post_containers
OpenPosts(doc, containers, unique_posts, posts) ==
    IF containers = <<>> THEN posts
    ELSE LET post_text == OpenPostText(doc, Head(containers))
         IN  IF ~Falsy(post_text) /\ post_text \notin unique_posts
             THEN OpenPosts(doc, Tail(containers), unique_posts \cup {post_text},
                            Append(posts, PostOf(doc, Head(containers),
                                                 Truncated(post_text, OPEN_POST_TEXT_MAX),
                                                 OPEN_POST_DATE_WORDS)))
             ELSE OpenPosts(doc, Tail(containers), unique_posts, posts)

\* extract_posts(linkedin_url), where trafilatura.fetch_url answers `answer`.
\* The count read from the page when there is no container is overwritten by
\* the final `posts_data['count'] = len(posts_data['posts'])`
ExtractPosts(linkedin_url, answer) ==
    IF NotCompanyUrl(linkedin_url) THEN PyNone
    ELSE IF answer.raises THEN PyNone
    ELSE IF Falsy(Markup(answer.doc)) THEN PyNone
    ELSE LET doc == answer.doc
             containers == OpenPostContainers(doc)
             found == IF containers = <<>> THEN PageCount(doc, {"post"}) ELSE NoneValue
             d1 == [count |-> PyInt(IF found = NoneValue THEN 0 ELSE ParseInt(found)),
                    posts |-> <<>>]
             posts == OpenPosts(doc, containers, {}, <<>>)
         IN  PyDict(DictSet(DictSet(d1, "posts", posts), "count", PyInt(Len(posts))))

\* extract_posts reached its search for containers
OpenCascadeReached(linkedin_url, answer) ==
    /\ ~NotCompanyUrl(linkedin_url)
    /\ ~answer.raises
    /\ ~Falsy(Markup(answer.doc))

\* the methods extract_company_jobs runs on a page, in order: Method 2 and
\* Method 3 stand behind `if not job_elements`
AuthJobCascade(doc) ==
    LET s1 == <<Step(1, AuthMethod1(doc))>>
        s2 == IF Gathered(s1) = <<>> THEN Append(s1, Step(2, AuthMethod2(doc))) ELSE s1
    IN  IF Gathered(s2) = <<>> THEN Append(s2, Step(3, AuthMethod3(doc))) ELSE s2

\* Method 1 of extract_job_openings
OpenMethod1(doc) ==
    FindAll(doc, 0, {"li", "div"},
            {j \in 1..Len(doc) : ClassHasAny(doc[j].class, OPEN_CARD_TERMS)})

\* the second method of extract_job_openings: the h3 and h4 tags that hold a
\* string
OpenMethod2(doc) ==
    FindAll(doc, 0, {"h3", "h4"},
            {j \in 1..Len(doc) : /\ StringOf(doc, j) # NoneValue
                                 /\ Len(Strip(StringOf(doc, j))) > 0})

\* the methods extract_job_openings runs on a page, in order: the second one
\* stands behind `if not job_elements`
OpenJobCascade(doc) ==
    LET s1 == <<Step(1, OpenMethod1(doc))>>
    IN  IF Gathered(s1) = <<>> THEN Append(s1, Step(2, OpenMethod2(doc))) ELSE s1

----------------------------------------------------------------------------
(* The people extractors.  The pages of this model hold an employee count or
   none; they hold no leadership section, no leadership title, no department
   and no location.  The lists of leaders, departments and locations are
   defined for such pages only: each definition states what the code searches
   for and is the empty list when the search finds nothing. *)

\* the characters of [\,\d]
COUNT_CHARS == CharsOf(DIGITS) \cup {","}

STAFF_WORDS == {"employee", "people"}

\* group(1) of (\d+[\,\d]*)\s*(employees?|people) matched at position i, re.I
StaffGroupAt(s, i) ==
    LET j == i + RunLen(s, i, COUNT_CHARS, Len(s))
        k == SkipWhitespace(s, j)
    IN  IF IsDigit(SubSeq(s, i, i)) /\ \E w \in STAFF_WORDS : StartsAt(Lower(s), k, w)
        THEN SubSeq(s, i, j - 1) ELSE NoneValue

\* group(1) of the leftmost match of the employee count pattern, None
\* without a match
SearchStaff(s) ==
    LET hits == {i \in 1..Len(s) : StaffGroupAt(s, i) # NoneValue}
    IN  IF hits = {} THEN NoneValue
        ELSE StaffGroupAt(s, CHOOSE i \in hits : \A h \in hits : i <= h)

RECURSIVE WithoutCommas(_)
\* count_str.replace(',', '')
WithoutCommas(s) ==
    IF s = "" THEN ""
    ELSE (IF Head(s) = Head(",") THEN "" ELSE SubSeq(s, 1, 1)) \o WithoutCommas(Tail(s))

\* the tags whose .string holds an employee count
StaffStrings(doc) ==
    {j \in 1..Len(doc) : /\ StringOf(doc, j) # NoneValue
                         /\ SearchStaff(StringOf(doc, j)) # NoneValue}

\* soup.get_text()
PageText(doc) == ConcatStrings(doc, TagsInside(doc, 0))

----------------------------------------------------------------------------
(* authenticated_linkedin_scraper: extract_company_people *)

\* the record returned when the people page could not be fetched
PeopleFetchError ==
    [employee_count |-> PyStr("Error fetching page"), leaders |-> <<>>,
     departments |-> <<>>, locations |-> <<>>,
     authentication_required |-> TRUE,
     authentication_status |-> "Failed to authenticate"]

\* the item that stands for the leaders behind the login
LEADERS_PLACEHOLDER ==
    [name |-> "LinkedIn Authentication Required",
     title |-> "Login needed to view leadership team"]

\* what the other count patterns and the size patterns of the login branch
\* look for: 'company size', 'team size', 'followers' and 'employees' after
\* or ahead of a size range
SIZE_WORDS == {"company size", "team size", "followers", "employees"}

\* employee_count read from the text of the company page: the first count
\* pattern; the text holds nothing the later patterns look for
MainPageStaff(text) ==
    LET found == SearchStaff(text)
        count == IF found = NoneValue THEN 0 ELSE ParseInt(WithoutCommas(found))
    IN  CASE count # 0 -> PyInt(count)
          [] found = NoneValue /\ ~SearchAnyOf(text, SIZE_WORDS) -> PyInt(0)

\* people_data returned from the login branch
PeopleBehindWall(people_data, main) ==
    LET d1 == DictSet(people_data, "authentication_required", TRUE)
        d2 == DictSet(d1, "leaders", Append(d1["leaders"], LEADERS_PLACEHOLDER))
        d3 == IF Falsy(main.html_content) THEN d2
              ELSE DictSet(d2, "employee_count", MainPageStaff(PageText(main.doc)))
    IN  IF d3["employee_count"] = PyInt(0)
        THEN DictSet(d3, "employee_count", PyStr(COUNT_UNKNOWN))
        ELSE d3

\* employee_count of the people page: the count of the first span or div
\* whose string holds one
AuthEmployeeCount(doc) ==
    LET count_elements == FindAll(doc, 0, {"span", "div"}, StaffStrings(doc))
    IN  IF count_elements = <<>> THEN PyInt(0)
        ELSE PyInt(ParseInt(WithoutCommas(SearchStaff(TextOf(doc, Head(count_elements))))))

AUTH_LEADER_TERMS == {"leadership", "key-people", "leaders", "executives"}

LEADERSHIP_TITLES ==
    {"ceo", "chief executive officer", "cto", "chief technology officer", "cfo",
     "chief financial officer", "coo", "chief operating officer", "president",
     "founder", "co-founder", "director", "vice president", "vp", "head of",
     "managing director"}

\* people_data['leaders']: empty without a leadership section and without a
\* string that holds a leadership title
AuthLeaders(doc) ==
    CASE /\ FindAll(doc, 0, {"section", "div"},
                    {j \in 1..Len(doc) : ClassHasAny(doc[j].class, AUTH_LEADER_TERMS)}) = <<>>
         /\ \A j \in 1..Len(doc) : ~WordSearch(doc[j].string, LEADERSHIP_TITLES)
         -> <<>>

\* tag.get('data-test-id')
TestIdOf(tag) == IF "data_test_id" \in DOMAIN tag THEN tag.data_test_id ELSE NoneValue

\* people_data['departments'] and people_data['locations']: empty without a
\* section whose data-test-id is the one given
AuthInsights(doc, test_id) ==
    CASE FindAll(doc, 0, {"section", "div"},
                 {j \in 1..Len(doc) : TestIdOf(doc[j]) = test_id}) = <<>>
         -> <<>>

\* people_data returned from the extraction branch
PeopleExtracted(people_data, doc) ==
    [people_data EXCEPT !.employee_count = AuthEmployeeCount(doc),
                        !.leaders = AuthLeaders(doc),
                        !.departments = AuthInsights(doc, "insights-by-function"),
                        !.locations = AuthInsights(doc, "insights-by-location")]

\* extract_company_people(linkedin_url) with the credentials of the
\* environment, where opener.open answers people_answer for the people page
\* and main_answer for the company page
ExtractCompanyPeople(linkedin_url, email, password, people_answer, main_answer) ==
    IF NotCompanyUrl(linkedin_url) THEN PyNone
    ELSE LET page == FetchLinkedinPage(email, password, people_answer)
         IN  IF page.raised THEN PyRaise(page.exc)
             ELSE IF Falsy(page.html_content) THEN PyDict(PeopleFetchError)
             ELSE LET people_data ==
                          [employee_count |-> PyInt(0), leaders |-> <<>>,
                           departments |-> <<>>, locations |-> <<>>,
                           authentication_status |->
                               IF page.authenticated THEN "Authenticated"
                               ELSE "Not authenticated"]
                  IN  IF WallDetected(page.html_content, page.doc)
                      THEN PyDict(PeopleBehindWall(people_data,
                                      FetchLinkedinPage(email, password, main_answer)))
                      ELSE PyDict(PeopleExtracted(people_data, page.doc))

----------------------------------------------------------------------------
(* linkedin_enhanced_scraper: extract_people *)

\* employee_count: the count of the first span or div whose string holds one
OpenEmployeeCount(doc) ==
    LET count_element == FirstOf(FindAll(doc, 0, {"span", "div"}, StaffStrings(doc)))
    IN  IF count_element = 0 THEN PyInt(0)
        ELSE PyInt(ParseInt(WithoutCommas(SearchStaff(TextOf(doc, count_element)))))

OPEN_LEADER_TERMS == {"leadership", "key-people", "company-leaders", "executives"}

OPEN_LEADER_WORDS == {"ceo", "chief", "director", "vp", "head of", "president", "founder"}

\* people_data['leaders']: empty when leader_elements is, that is without a
\* name tag in a leadership section and without a div or span whose string
\* holds a leadership word
OpenLeaders(doc) ==
    LET leader_section ==
            FirstOf(FindAll(doc, 0, {"section", "div"},
                    {j \in 1..Len(doc) : ClassHasAny(doc[j].class, OPEN_LEADER_TERMS)}))
    IN  CASE /\ \/ leader_section = 0
                \/ FindAll(doc, leader_section, {"h3", "h4", "a"},
                           {j \in 1..Len(doc) : ClassHasAny(doc[j].class, {"name"})}) = <<>>
             /\ FindAll(doc, 0, {"div", "span"}, StringMatches(doc, OPEN_LEADER_WORDS)) = <<>>
             -> <<>>

OPEN_PLACE_WORDS ==
    {"united states", "usa", "uk", "canada", "australia", "india", "germany", "france"}

OPEN_DEPARTMENT_WORDS ==
    {"engineering", "sales", "marketing", "hr", "finance", "operations", "product",
     "design", "research", "development"}

\* people_data['locations'] and people_data['departments']: empty without a
\* div or span whose string holds one of the words
OpenInsights(doc, words) ==
    CASE FindAll(doc, 0, {"div", "span"}, StringMatches(doc, words)) = <<>> -> <<>>

\* extract_people(linkedin_url), where trafilatura.fetch_url answers `answer`
ExtractPeople(linkedin_url, answer) ==
    IF NotCompanyUrl(linkedin_url) THEN PyNone
    ELSE IF answer.raises THEN PyNone
    ELSE IF Falsy(Markup(answer.doc)) THEN PyNone
    ELSE PyDict([employee_count |-> OpenEmployeeCount(answer.doc),
                 leaders |-> OpenLeaders(answer.doc),
                 locations |-> OpenInsights(answer.doc, OPEN_PLACE_WORDS),
                 departments |-> OpenInsights(answer.doc, OPEN_DEPARTMENT_WORDS)])

----------------------------------------------------------------------------
(* The posts and people extractors: the inputs of the model *)

PostsUrls ==
    { "https://www.linkedin.com/company/acme",
      "https://www.linkedin.com/company/acme/",
      "https://www.linkedin.com/company/acme//",
      "https://www.linkedin.com/company/acme/posts",
      "https://www.linkedin.com/company/acme/jobs",
      "https://www.linkedin.com/in/someone" }

PeopleUrls ==
    { "https://www.linkedin.com/company/acme",
      "https://www.linkedin.com/company/acme/",
      "https://www.linkedin.com/company/acme//",
      "https://www.linkedin.com/company/acme/people",
      "https://www.linkedin.com/company/acme/posts",
      "https://www.linkedin.com/in/someone" }

\* a posts page with feed containers: a post with a date and reactions, a
\* text of 9 characters, the first post once more, and a text of 10 characters
DOC_POSTS_FEED ==
    << Tag("div", 0, "feed-shared-update-v2", ""),
       Tag("p", 1, "feed-shared-text", "We are  hiring engineers in Berlin"),
       Tag("span", 1, NoneValue, "2 days ago"),
       Tag("span", 1, NoneValue, "15 likes"),
       Tag("article", 0, "feed-item", "Too short"),
       Tag("div", 0, "Feed-Shared-Update-v2", ""),
       Tag("p", 6, "feed-shared-text", "We are hiring engineers in Berlin"),
       Tag("article", 0, "feed-shared-update", "Hiring now") >>

\* a posts page whose containers carry a data-urn only
DOC_POSTS_URN ==
    << UrnTag("div", 0, NoneValue, "urn:li:activity:update:1",
              "Our new office opened today in Lyon"),
       UrnTag("div", 0, NoneValue, "urn:li:member:7", "Follow") >>

\* a posts page that holds post texts without containers, and a count
DOC_POSTS_TEXT ==
    << Tag("section", 0, NoneValue, ""),
       Tag("p", 1, "post-text", "Quarterly results are out now"),
       Tag("span", 0, NoneValue, "128 posts") >>

\* a posts page with one post of 525 characters
DOC_POSTS_LONG ==
    << Tag("article", 0, "feed-shared-update", ""),
       Tag("p", 1, "update-text", Repeat("launch day ", 47) \o "and more") >>

\* a posts page on which every method would find a container
DOC_POSTS_MIXED ==
    << Tag("div", 0, "update-components-text", ""),
       Tag("span", 1, "update-text", "A feed update about our launch"),
       UrnTag("div", 0, "post-wrapper", "urn:li:update:2", "An update known by its urn"),
       Tag("p", 0, "post-text", "A text that stands alone") >>

PostsPages ==
    { DOC_POSTS_FEED, DOC_POSTS_URN, DOC_POSTS_TEXT, DOC_POSTS_LONG, DOC_POSTS_MIXED,
      DOC_LOGIN_FORM, DOC_EMPTY }

\* a people page that reports the employee count
DOC_PEOPLE_COUNT ==
    << Tag("div", 0, "org-people", ""),
       Tag("span", 1, NoneValue, "1,234 employees") >>

\* a people page without a count
DOC_PEOPLE_PLAIN == << Tag("h1", 0, NoneValue, "Who works at Acme") >>

PeoplePages == {DOC_PEOPLE_COUNT, DOC_PEOPLE_PLAIN, DOC_LOGIN_FORM, DOC_EMPTY}

\* a company page that reports its posts and its staff
DOC_COMPANY_ACTIVITY ==
    << Tag("h1", 0, NoneValue, "Acme"),
       Tag("div", 0, NoneValue, "128 posts"),
       Tag("span", 0, NoneValue, "5,000 employees") >>

\* response.geturl() of a fetched page
SectionFinalUrls(suffix) ==
    { "https://www.linkedin.com/company/acme" \o suffix,
      "https://www.linkedin.com/uas/login?session_redirect=section" }

\* answers of opener.open(posts_url) and opener.open(people_url)
SectionAnswers(pages, suffix) ==
    {FetchRaised}
    \cup {[raises |-> FALSE, doc |-> d, final_url |-> u] :
            d \in pages, u \in SectionFinalUrls(suffix)}

\* answers of opener.open(linkedin_url)
CompanyPageAnswers ==
    {FetchRaised}
    \cup {[raises |-> FALSE, doc |-> d, final_url |-> "https://www.linkedin.com/company/acme"] :
            d \in {DOC_COMPANY_ACTIVITY, DOC_COMPANY_PLAIN}}

NoCredentials == [email |-> "", password |-> ""]

\* an answer that carries the page
Fetched(doc, suffix) ==
    [raises |-> FALSE, doc |-> doc,
     final_url |-> "https://www.linkedin.com/company/acme" \o suffix]

\* the calls of extract_company_posts: every URL under every environment,
\* and every answer for one URL
CompanyPostsCalls ==
    [linkedin_url : PostsUrls, env : EnvCredentials,
     posts_answer : {Fetched(DOC_POSTS_FEED, "/posts")},
     main_answer : {Fetched(DOC_COMPANY_PLAIN, "")}]
    \cup [linkedin_url : {"https://www.linkedin.com/company/acme"},
          env : {NoCredentials},
          posts_answer : SectionAnswers(PostsPages, "/posts"),
          main_answer : CompanyPageAnswers]

\* the calls of extract_posts
PostsCalls ==
    [linkedin_url : PostsUrls, answer : {[raises |-> FALSE, doc |-> DOC_POSTS_FEED]}]
    \cup [linkedin_url : {"https://www.linkedin.com/company/acme"},
          answer : {FetchRaised} \cup {[raises |-> FALSE, doc |-> d] : d \in PostsPages}]

\* the calls of extract_company_people
CompanyPeopleCalls ==
    [linkedin_url : PeopleUrls, env : EnvCredentials,
     people_answer : {Fetched(DOC_PEOPLE_COUNT, "/people")},
     main_answer : {Fetched(DOC_COMPANY_PLAIN, "")}]
    \cup [linkedin_url : {"https://www.linkedin.com/company/acme"},
          env : {NoCredentials},
          people_answer : SectionAnswers(PeoplePages, "/people"),
          main_answer : CompanyPageAnswers]

\* the calls of extract_people
PeopleCalls ==
    [linkedin_url : PeopleUrls, answer : {[raises |-> FALSE, doc |-> DOC_PEOPLE_COUNT]}]
    \cup [linkedin_url : {"https://www.linkedin.com/company/acme"},
          answer : {FetchRaised} \cup {[raises |-> FALSE, doc |-> d] : d \in PeoplePages}]

\* the sub-page URL an extractor derives: none when the URL is no company URL
Requested(linkedin_url, suffix) ==
    IF NotCompanyUrl(linkedin_url) THEN <<>> ELSE <<SectionUrl(linkedin_url, suffix)>>

\* the cascade of an extractor of authenticated_linkedin_scraper: empty when
\* the extractor left before its search for containers
AuthTried(c, answer, steps) ==
    IF AuthCascadeReached(c.linkedin_url, c.env.email, c.env.password, answer)
    THEN steps ELSE <<>>

\* the cascade of an extractor of linkedin_enhanced_scraper
OpenTried(c, steps) ==
    IF OpenCascadeReached(c.linkedin_url, c.answer) THEN steps ELSE <<>>

----------------------------------------------------------------------------
(* The section extractors: one action per extractor.  A call records the URL
   it was given, the sub-page URL it derived, the answers of the network, the
   methods of the cascade it ran with the containers each one found, the
   containers it went through, and what it returned.  The record of each call
   is computed once. *)

CompanyJobsCall(c) ==
    [op |-> "extract_company_jobs", linkedin_url |-> c.linkedin_url, env |-> c.env,
     requested |-> Requested(c.linkedin_url, "/jobs"),
     jobs_answer |-> c.jobs_answer, main_answer |-> c.main_answer,
     tried |-> AuthTried(c, c.jobs_answer, AuthJobCascade(c.jobs_answer.doc)),
     processed |-> AuthTried(c, c.jobs_answer, AuthJobElements(c.jobs_answer.doc)),
     ret |-> CompanyJobsOf[c]]

CompanyJobsCallOf ==
    Tabulated([c \in CompanyJobsCalls |-> CompanyJobsCall(c)])

extract_company_jobs ==
    \E c \in CompanyJobsCalls :
        /\ call' = CompanyJobsCallOf[c]
        /\ UNCHANGED <<auth_state, cookies>>

JobOpeningsCall(c) ==
    [op |-> "extract_job_openings", linkedin_url |-> c.linkedin_url,
     requested |-> Requested(c.linkedin_url, "/jobs"),
     jobs_answer |-> c.answer,
     tried |-> OpenTried(c, OpenJobCascade(c.answer.doc)),
     processed |-> OpenTried(c, OpenJobElements(c.answer.doc)),
     ret |-> JobOpeningsOf[c]]

JobOpeningsCallOf ==
    Tabulated([c \in JobOpeningsCalls |-> JobOpeningsCall(c)])

extract_job_openings ==
    \E c \in JobOpeningsCalls :
        /\ call' = JobOpeningsCallOf[c]
        /\ UNCHANGED <<auth_state, cookies>>

CompanyPostsCall(c) ==
    [op |-> "extract_company_posts", linkedin_url |-> c.linkedin_url, env |-> c.env,
     requested |-> Requested(c.linkedin_url, "/posts"),
     posts_answer |-> c.posts_answer, main_answer |-> c.main_answer,
     tried |-> AuthTried(c, c.posts_answer, AuthPostCascade(c.posts_answer.doc)),
     processed |-> AuthTried(c, c.posts_answer, AuthPostContainers(c.posts_answer.doc)),
     ret |-> ExtractCompanyPosts(c.linkedin_url, c.env.email, c.env.password,
                                 c.posts_answer, c.main_answer)]

CompanyPostsCallOf ==
    Tabulated([c \in CompanyPostsCalls |-> CompanyPostsCall(c)])

extract_company_posts ==
    \E c \in CompanyPostsCalls :
        /\ call' = CompanyPostsCallOf[c]
        /\ UNCHANGED <<auth_state, cookies>>

PostsCall(c) ==
    [op |-> "extract_posts", linkedin_url |-> c.linkedin_url,
     requested |-> Requested(c.linkedin_url, "/posts"),
     posts_answer |-> c.answer,
     tried |-> OpenTried(c, OpenPostCascade(c.answer.doc)),
     processed |-> OpenTried(c, OpenPostContainers(c.answer.doc)),
     ret |-> ExtractPosts(c.linkedin_url, c.answer)]

PostsCallOf ==
    Tabulated([c \in PostsCalls |-> PostsCall(c)])

extract_posts ==
    \E c \in PostsCalls :
        /\ call' = PostsCallOf[c]
        /\ UNCHANGED <<auth_state, cookies>>

CompanyPeopleCall(c) ==
    [op |-> "extract_company_people", linkedin_url |-> c.linkedin_url, env |-> c.env,
     requested |-> Requested(c.linkedin_url, "/people"),
     people_answer |-> c.people_answer, main_answer |-> c.main_answer,
     ret |-> ExtractCompanyPeople(c.linkedin_url, c.env.email, c.env.password,
                                  c.people_answer, c.main_answer)]

CompanyPeopleCallOf ==
    Tabulated([c \in CompanyPeopleCalls |-> CompanyPeopleCall(c)])

extract_company_people ==
    \E c \in CompanyPeopleCalls :
        /\ call' = CompanyPeopleCallOf[c]
        /\ UNCHANGED <<auth_state, cookies>>

PeopleCall(c) ==
    [op |-> "extract_people", linkedin_url |-> c.linkedin_url,
     requested |-> Requested(c.linkedin_url, "/people"),
     people_answer |-> c.answer,
     ret |-> ExtractPeople(c.linkedin_url, c.answer)]

PeopleCallOf ==
    Tabulated([c \in PeopleCalls |-> PeopleCall(c)])

extract_people ==
    \E c \in PeopleCalls :
        /\ call' = PeopleCallOf[c]
        /\ UNCHANGED <<auth_state, cookies>>

NextSections ==
    \/ extract_company_jobs
    \/ extract_job_openings
    \/ extract_company_posts
    \/ extract_posts
    \/ extract_company_people
    \/ extract_people

SpecSections == Init /\ [][NextSections]_vars

----------------------------------------------------------------------------
(* Claims about the section extractors *)

\* the last call was a section extractor that derived a sub-page URL
SectionCall ==
    /\ call.op \in {"extract_company_posts", "extract_posts", "extract_company_jobs",
                    "extract_job_openings", "extract_company_people", "extract_people"}
    /\ call.requested # <<>>

\* the suffix of the section the last call is about
SectionSuffix ==
    CASE call.op \in {"extract_company_posts", "extract_posts"} -> "/posts"
      [] call.op \in {"extract_company_jobs", "extract_job_openings"} -> "/jobs"
      [] call.op \in {"extract_company_people", "extract_people"} -> "/people"

\* url without its last character when that is a slash
OneSlashLess(url) ==
    IF url # "" /\ SubSeq(url, Len(url), Len(url)) = "/"
    THEN SubSeq(url, 1, Len(url) - 1) ELSE url

\* stem is url without the slashes it ends with
IsStemOf(stem, url) ==
    /\ Len(stem) <= Len(url)
    /\ stem = SubSeq(url, 1, Len(stem))
    /\ \A i \in (Len(stem) + 1)..Len(url) : SubSeq(url, i, i) = "/"
    /\ stem = "" \/ SubSeq(stem, Len(stem), Len(stem)) # "/"

\* C17 as stated: the sub-page URL is the company URL unchanged when it ends
\* with the suffix of the section, and otherwise the company URL with one
\* trailing slash stripped, followed by the suffix
C17_OneSlashStripped ==
    SectionCall =>
        call.requested[1] =
            IF EndsWith(call.linkedin_url, SectionSuffix) THEN call.linkedin_url
            ELSE OneSlashLess(call.linkedin_url) \o SectionSuffix

\* C17, amended: the sub-page URL is the company URL unchanged when it ends
\* with the suffix of the section, and otherwise the company URL with every
\* trailing slash stripped, followed by the suffix
C17_AllSlashesStripped ==
    SectionCall =>
        IF EndsWith(call.linkedin_url, SectionSuffix)
        THEN call.requested[1] = call.linkedin_url
        ELSE \E k \in 0..Len(call.linkedin_url) :
                LET stem == SubSeq(call.linkedin_url, 1, Len(call.linkedin_url) - k)
                IN  /\ IsStemOf(stem, call.linkedin_url)
                    /\ call.requested[1] = stem \o SectionSuffix

\* a people extractor was given a URL that ends with two slashes and derived
\* the people page of the company
C17_Witness ==
    /\ call.op = "extract_company_people"
    /\ call.linkedin_url = "https://www.linkedin.com/company/acme//"
    /\ call.requested = <<"https://www.linkedin.com/company/acme/people">>

\* the two values of authentication_status, as the code spells them
AUTHENTICATION_STATUSES == {"Authenticated", "Not authenticated"}

\* the last call was a section extractor that returned a record
SectionRecordReturned ==
    /\ call.op \in {"extract_company_posts", "extract_posts", "extract_company_jobs",
                    "extract_job_openings", "extract_company_people", "extract_people"}
    /\ call.ret[1] = "dict"

\* C18: every record a section extractor returns carries a boolean
\* authentication_required and an authentication_status that is one of the
\* two values, authenticated or not authenticated
C18_AuthenticationFields ==
    SectionRecordReturned =>
        /\ "authentication_required" \in DOMAIN call.ret[2]
        /\ call.ret[2].authentication_required \in BOOLEAN
        /\ "authentication_status" \in DOMAIN call.ret[2]
        /\ call.ret[2].authentication_status \in AUTHENTICATION_STATUSES

\* C20: when the first method of a cascading extractor finds a container, no
\* later method runs and the containers gone through are those of the first
\* method
C20_CascadeShortCircuit ==
    (/\ call.op \in {"extract_company_posts", "extract_posts", "extract_company_jobs",
                     "extract_job_openings"}
     /\ call.tried # <<>>
     /\ call.tried[1].found # <<>>)
    => /\ Len(call.tried) = 1
       /\ call.processed = call.tried[1].found

----------------------------------------------------------------------------
(* Claims about the items the posts and jobs extractors emit *)

\* the items kept of a list of candidate texts when an item is discarded if
\* and only if it is empty, shorter than min, or equal to an earlier one:
\* their places in the list
KeptIndices(texts, min) ==
    SelectSeq([i \in 1..Len(texts) |-> i], LAMBDA i :
        /\ ~Falsy(texts[i])
        /\ Len(texts[i]) >= min
        /\ \A j \in 1..(i - 1) : texts[j] # texts[i])

\* the texts of emitted posts and the titles of emitted jobs
PostTexts(posts) == [i \in 1..Len(posts) |-> posts[i].text]
JobTitles(jobs) == [i \in 1..Len(jobs) |-> jobs[i].title]

\* the last call was made by the named extractor and went through its containers
WentThrough(op) ==
    /\ call.op = op
    /\ call.ret[1] = "dict"
    /\ call.tried # <<>>

\* the whitespace-normalized texts of the containers extract_company_posts
\* went through
AuthCandidateTexts ==
    [i \in 1..Len(call.processed) |-> AuthPostText(call.posts_answer.doc, call.processed[i])]

\* the whitespace-normalized texts of the containers extract_posts went
\* through, for the containers that hold a text
OpenCandidateTexts ==
    LET with_text == SelectSeq(call.processed,
                               LAMBDA c : ~Falsy(OpenPostText(call.posts_answer.doc, c)))
    IN  [i \in 1..Len(with_text) |->
            LET text == OpenPostText(call.posts_answer.doc, with_text[i])
            IN  CollapseRange(text, 1, Len(text))]

\* the titles of the elements extract_company_jobs went through
AuthCandidateTitles ==
    [i \in 1..Len(call.processed) |-> AuthJobTitle(call.jobs_answer.doc, call.processed[i])]

\* the titles of the elements extract_job_openings went through
OpenCandidateTitles ==
    [i \in 1..Len(call.processed) |-> OpenJobTitle(call.jobs_answer.doc, call.processed[i])]

\* the posts extract_company_posts emits are the candidates that are not
\* shorter than 10 characters and not equal to an earlier candidate
C22_AuthPostsKept ==
    WentThrough("extract_company_posts") =>
        LET kept == KeptIndices(AuthCandidateTexts, POST_TEXT_MIN)
        IN  PostTexts(call.ret[2].posts) =
                [k \in 1..Len(kept) |->
                    Truncated(AuthCandidateTexts[kept[k]], AUTH_POST_TEXT_MAX)]

\* the same of extract_posts: as many posts as candidates kept
C22_OpenPostsKept ==
    WentThrough("extract_posts") =>
        Len(call.ret[2].posts) = Len(KeptIndices(OpenCandidateTexts, POST_TEXT_MIN))

\* the jobs extract_company_jobs emits are the candidates that are not
\* shorter than 3 characters and not equal to an earlier candidate
C22_AuthJobsKept ==
    WentThrough("extract_company_jobs") =>
        LET kept == KeptIndices(AuthCandidateTitles, JOB_TITLE_MIN)
        IN  JobTitles(call.ret[2].jobs) = [k \in 1..Len(kept) |-> AuthCandidateTitles[kept[k]]]

\* the same of extract_job_openings
C22_OpenJobsKept ==
    WentThrough("extract_job_openings") =>
        LET kept == KeptIndices(OpenCandidateTitles, JOB_TITLE_MIN)
        IN  JobTitles(call.ret[2].jobs) = [k \in 1..Len(kept) |-> OpenCandidateTitles[kept[k]]]

\* no two jobs of a returned record share a title
C22_NoSharedTitle ==
    (WentThrough("extract_company_jobs") \/ WentThrough("extract_job_openings")) =>
        \A i, j \in 1..Len(call.ret[2].jobs) :
            call.ret[2].jobs[i].title = call.ret[2].jobs[j].title => i = j

\* C22: in the section extractors a post is discarded if and only if its
\* whitespace-normalized text was already emitted or is shorter than 10
\* characters, and a job if and only if its title was already emitted or is
\* shorter than 3 characters: an item of exactly the threshold length is kept
\* and no two emitted jobs share a title.
C22_ItemAcceptance ==
    /\ C22_AuthPostsKept
    /\ C22_OpenPostsKept
    /\ C22_AuthJobsKept
    /\ C22_OpenJobsKept
    /\ C22_NoSharedTitle

\* a count as a number: counts are int or str
CountValue(count) == IF count[1] = "int" THEN count[2] ELSE ParseInt(count[2])

\* the count of a record with these items when the count the page reports
\* stands in for an empty item list and for nothing else
CountAsStated(items, reported) ==
    IF items = <<>> /\ reported # NoneValue THEN ParseInt(reported) ELSE Len(items)

\* extract_posts: the count is that of the posts, or the one the page reports
\* when there is no post
C23_PostsCount ==
    WentThrough("extract_posts") =>
        CountValue(call.ret[2].count) =
            CountAsStated(call.ret[2].posts, PageCount(call.posts_answer.doc, {"post"}))

\* the same of extract_job_openings
C23_JobOpeningsCount ==
    WentThrough("extract_job_openings") =>
        CountValue(call.ret[2].count) =
            CountAsStated(call.ret[2].jobs, PageCount(call.jobs_answer.doc, {"job"}))

\* the same of extract_company_jobs
C23_CompanyJobsCount ==
    WentThrough("extract_company_jobs") =>
        CountValue(call.ret[2].count) =
            CountAsStated(call.ret[2].jobs, PageCount(call.jobs_answer.doc, COUNT_WORDS))

\* extract_company_posts reads no count from the posts page: the count is
\* that of the posts
C23_CompanyPostsCount ==
    WentThrough("extract_company_posts") =>
        CountValue(call.ret[2].count) = Len(call.ret[2].posts)

\* in every extractor, the count of a record with items is their number
C23_CountOfItems ==
    /\ (WentThrough("extract_posts") \/ WentThrough("extract_company_posts")) =>
           (call.ret[2].posts # <<>> => CountValue(call.ret[2].count) = Len(call.ret[2].posts))
    /\ (WentThrough("extract_job_openings") \/ WentThrough("extract_company_jobs")) =>
           (call.ret[2].jobs # <<>> => CountValue(call.ret[2].count) = Len(call.ret[2].jobs))

\* C23: in every section extractor the count of the returned record is the
\* number of accepted items, except that with no accepted item and a count
\* reported by the page it is the reported count.
C23_CountRule ==
    /\ C23_PostsCount
    /\ C23_JobOpeningsCount
    /\ C23_CompanyJobsCount
    /\ C23_CompanyPostsCount

----------------------------------------------------------------------------
(* The session next to the scraper and the section extractors: the
   operations of linkedin_auth, scrape_website and the six extractors in one
   process, in any order.  The scraper and the extractors are called for one
   company and one page each, or a failed fetch. *)

\* the calls of the scraper and the extractors made next to the session
BesideSession(c) ==
    CASE c.op = "scrape_website" ->
            /\ c.url = "https://acme.com"
            /\ c.answer \in {[downloaded |-> FALSE],
                             [downloaded |-> TRUE, clean_content |-> TEXT_SERVICES,
                              page |-> [raises |-> FALSE, doc |-> PAGE_ACME]]}
      [] c.op \in {"extract_company_jobs", "extract_job_openings"} ->
            /\ c.linkedin_url = "https://www.linkedin.com/company/acme"
            /\ (c.jobs_answer.raises \/ c.jobs_answer.doc = DOC_JOB_CARDS)
            /\ (c.op = "extract_company_jobs" =>
                    c.env = NoCredentials /\ c.main_answer = FetchRaised)
      [] c.op \in {"extract_company_posts", "extract_posts"} ->
            /\ c.linkedin_url = "https://www.linkedin.com/company/acme"
            /\ (c.posts_answer.raises \/ c.posts_answer.doc = DOC_POSTS_FEED)
            /\ (c.op = "extract_company_posts" =>
                    c.env = NoCredentials /\ c.main_answer = FetchRaised)
      [] c.op \in {"extract_company_people", "extract_people"} ->
            /\ c.linkedin_url = "https://www.linkedin.com/company/acme"
            /\ (c.people_answer.raises \/ c.people_answer.doc = DOC_PEOPLE_COUNT)
            /\ (c.op = "extract_company_people" =>
                    c.env = NoCredentials /\ c.main_answer = FetchRaised)
      [] OTHER -> TRUE

NextProcess ==
    \/ Next
    \/ scrape_website /\ BesideSession(call')
    \/ NextSections /\ BesideSession(call')

SpecProcess == Init /\ [][NextProcess]_vars

----------------------------------------------------------------------------
(* Claims about the session state as a whole *)

\* the operations that assign to auth_state
SESSION_WRITERS == {"set_credentials", "authenticate", "clear_credentials"}

\* the operations that only read auth_state, or have no part in it
SESSION_READERS ==
    {"is_authenticated", "get_auth_username", "get_auth_error", "fetch_url_with_auth",
     "scrape_website", "extract_company_posts", "extract_posts", "extract_company_jobs",
     "extract_job_openings", "extract_company_people", "extract_people"}

\* C25: the session state (logged_in, username, password, error) is changed
\* only by set_credentials, authenticate and clear_credentials: a step of
\* is_authenticated, get_auth_username, get_auth_error, fetch_url_with_auth,
\* scrape_website or a section extractor leaves every key of auth_state as it
\* was, the presence of 'password' included.
C25_SessionFrame ==
    [][/\ call'.op \in SESSION_READERS => auth_state' = auth_state
       /\ auth_state' # auth_state => call'.op \in SESSION_WRITERS]_vars

\* an extractor or the scraper returned a record while the session was logged
\* in as alice with a password stored for the next login
C25_Witness ==
    /\ call.op \in {"extract_company_jobs", "extract_posts", "extract_people",
                    "scrape_website"}
    /\ call.ret[1] = "dict"
    /\ auth_state["logged_in"]
    /\ auth_state["username"] = "alice@example.com"
    /\ "password" \in DOMAIN auth_state

\* C26: in every reachable session state, logged_in = true implies that no
\* error is recorded: get_auth_error() returns None whenever is_authenticated()
\* returns True.
C26_LoggedInWithoutError ==
    IsAuthenticated(auth_state) => GetAuthError(auth_state) = NoneValue

\* C27: whenever authenticate() returns False, on any of its returns and from
\* any state, is_authenticated() is False right after the call.
C27_FalseMeansLoggedOut ==
    (call.op = "authenticate" /\ call.ret = FALSE) => ~IsAuthenticated(auth_state)

\* the last step was an authenticate() that returned True
LoginStep == call'.op = "authenticate" /\ call'.ret = TRUE

\* C28: whenever is_authenticated() is true, get_auth_username() is the
\* username submitted by the most recent authenticate() that returned True:
\* such a call leaves the username it posted as session_key, and no other step
\* that leaves the session authenticated changes what get_auth_username()
\* returns, a set_credentials with another username included.
C28_UsernameOfLastLogin ==
    [][/\ LoginStep => GetAuthUsername(auth_state') = call'.login_data[1]["session_key"]
       /\ (~LoginStep /\ IsAuthenticated(auth_state) /\ IsAuthenticated(auth_state'))
              => GetAuthUsername(auth_state') = GetAuthUsername(auth_state)]_vars

\* the part of C28 about the login itself
C28_LoginSetsUsername ==
    [][LoginStep => GetAuthUsername(auth_state') = call'.login_data[1]["session_key"]]_vars

----------------------------------------------------------------------------
(* Two callers on the shared session.  linkedin_auth_page calls
   set_credentials(username, password) and then authenticate() with nothing
   held around the two calls, and the server runs one request per thread, so
   the statements of two requests interleave.  A step is one statement that
   reads or writes auth_state or sends a request; what a statement computes
   on local variables belongs to the step that follows it.  In this
   specification `call` holds the frames of the calls in progress, one per
   caller: the position pc, the arguments username and password of
   set_credentials, the local variables of authenticate, the login_data
   posted, the login_response received and the value returned (ret is None
   until authenticate leaves; "raise" when it leaves with an exception). *)

Callers == {1, 2}

\* the form fields of the two requests
CallerCredentials ==
    { [username |-> "alice@example.com", password |-> "pw-a"],
      [username |-> "bob@example.com", password |-> "pw-b"] }

\* answers of session.get('https://www.linkedin.com/login'): a page with a
\* token, a page without, an exception
ConcurrentLoginPages ==
    { [raises |-> FALSE, text |-> "<input name=\"loginCsrfParam\" value=\"ajax:42\">",
       set_cookies |-> {"JSESSIONID"}],
      [raises |-> FALSE, text |-> "<html>Too many requests</html>", set_cookies |-> {}],
      Raised("ConnectionError") }

\* answers of session.post(login-submit): the feed, a checkpoint, an exception
ConcurrentSubmits ==
    { [raises |-> FALSE, url |-> "https://www.linkedin.com/feed/", text |-> "",
       set_cookies |-> {"li_at"}],
      [raises |-> FALSE, url |-> "https://www.linkedin.com/checkpoint/challenge/AgE1",
       text |-> "", set_cookies |-> {}],
      Raised("ConnectionError") }

\* str(KeyError('password'))
KEY_ERROR_PASSWORD == "'password'"

\* the frame of a caller whose request has not arrived
IdleFrame ==
    [pc |-> "idle", username |-> NoneValue, password |-> NoneValue,
     l_username |-> NoneValue, l_password |-> NoneValue, csrf_token |-> NoneValue,
     login_data |-> <<>>, login_response |-> <<>>, exc |-> NoneValue, ret |-> NoneValue]

InitConcurrent ==
    /\ auth_state = InitialAuthState
    /\ cookies = {}
    /\ call = [op |-> "concurrent", frames |-> [t \in Callers |-> IdleFrame]]

\* caller t stands at pc
At(t, pc) == call.frames[t].pc = pc

\* caller t goes on with frame f
Goes(t, f) == call' = [call EXCEPT !.frames[t] = f]

\* the frame of caller t at another position
Moved(t, pc) == [call.frames[t] EXCEPT !.pc = pc]

\* the frame of a caller that left authenticate
Left(t, ret) ==
    [call.frames[t] EXCEPT !.pc = "done", !.ret = ret, !.l_username = NoneValue,
                           !.l_password = NoneValue, !.csrf_token = NoneValue,
                           !.exc = NoneValue]

\* the frame of a caller that entered the except handler with exception e
Caught(t, e) == [call.frames[t] EXCEPT !.pc = "except_error", !.exc = e]

\* linkedin_auth_page, POST with both form fields: set_credentials is entered
post_request ==
    \E t \in Callers, c \in CallerCredentials :
        /\ At(t, "idle")
        /\ Goes(t, [IdleFrame EXCEPT !.pc = "set_username", !.username = c.username,
                                     !.password = c.password])
        /\ UNCHANGED <<auth_state, cookies>>

\* auth_state['username'] = username
set_username ==
    \E t \in Callers :
        /\ At(t, "set_username")
        /\ auth_state' = DictSet(auth_state, "username", call.frames[t].username)
        /\ Goes(t, Moved(t, "set_password"))
        /\ UNCHANGED cookies

\* auth_state['password'] = password
set_password ==
    \E t \in Callers :
        /\ At(t, "set_password")
        /\ auth_state' = DictSet(auth_state, "password", call.frames[t].password)
        /\ Goes(t, Moved(t, "set_error"))
        /\ UNCHANGED cookies

\* auth_state['error'] = None; return True; authenticate is entered
set_error ==
    \E t \in Callers :
        /\ At(t, "set_error")
        /\ auth_state' = DictSet(auth_state, "error", NoneValue)
        /\ Goes(t, Moved(t, "check_credentials"))
        /\ UNCHANGED cookies

\* if 'username' not in auth_state or 'password' not in auth_state
check_credentials ==
    \E t \in Callers :
        /\ At(t, "check_credentials")
        /\ Goes(t, Moved(t, IF HasCredentials(auth_state) THEN "read_username"
                            ELSE "no_credentials"))
        /\ UNCHANGED <<auth_state, cookies>>

\* auth_state['error'] = "No credentials provided"; return False
no_credentials ==
    \E t \in Callers :
        /\ At(t, "no_credentials")
        /\ auth_state' = AuthNoCredentials(auth_state)
        /\ Goes(t, Left(t, FALSE))
        /\ UNCHANGED cookies

\* username = auth_state['username']
read_username ==
    \E t \in Callers :
        /\ At(t, "read_username")
        /\ Goes(t, [call.frames[t] EXCEPT !.pc = "read_password",
                                          !.l_username = auth_state["username"]])
        /\ UNCHANGED <<auth_state, cookies>>

\* password = auth_state['password']: a KeyError when the key is gone
read_password ==
    \E t \in Callers :
        /\ At(t, "read_password")
        /\ Goes(t, IF "password" \in DOMAIN auth_state
                   THEN [call.frames[t] EXCEPT !.pc = "get_login_page",
                                               !.l_password = auth_state["password"]]
                   ELSE Caught(t, KEY_ERROR_PASSWORD))
        /\ UNCHANGED <<auth_state, cookies>>

\* login_page = session.get('https://www.linkedin.com/login') and the search
\* for the token in it
get_login_page ==
    \E t \in Callers, get \in ConcurrentLoginPages :
        /\ At(t, "get_login_page")
        /\ IF get.raises
           THEN Goes(t, Caught(t, get.exc)) /\ UNCHANGED cookies
           ELSE /\ cookies' = cookies \cup get.set_cookies
                /\ Goes(t, IF Falsy(CsrfTokenOf[get.text]) THEN Moved(t, "no_csrf")
                           ELSE [call.frames[t] EXCEPT !.pc = "post_login",
                                                       !.csrf_token = CsrfTokenOf[get.text]])
        /\ UNCHANGED auth_state

\* auth_state['error'] = "LinkedIn login form could not be processed"; return False
no_csrf ==
    \E t \in Callers :
        /\ At(t, "no_csrf")
        /\ auth_state' = AuthCsrfFailure(auth_state)
        /\ Goes(t, Left(t, FALSE))
        /\ UNCHANGED cookies

\* login_response = session.post(login-submit, data=login_data) with the
\* local username and password, and the test of login_response.url
post_login ==
    \E t \in Callers, post \in ConcurrentSubmits :
        LET f == call.frames[t]
            login_data == [session_key |-> f.l_username, session_password |-> f.l_password,
                           loginCsrfParam |-> f.csrf_token]
        IN  /\ At(t, "post_login")
            /\ IF post.raises
               THEN /\ Goes(t, [Caught(t, post.exc) EXCEPT !.login_data = <<login_data>>])
                    /\ UNCHANGED cookies
               ELSE /\ cookies' = cookies \cup post.set_cookies
                    /\ Goes(t, [f EXCEPT !.pc = IF LoginSucceededOn[post.url]
                                                THEN "success_flag" ELSE "failure_error",
                                         !.login_data = <<login_data>>,
                                         !.login_response = <<[url |-> post.url,
                                                               text |-> post.text]>>])
            /\ UNCHANGED auth_state

\* auth_state['logged_in'] = True
success_flag ==
    \E t \in Callers :
        /\ At(t, "success_flag")
        /\ auth_state' = DictSet(auth_state, "logged_in", TRUE)
        /\ Goes(t, Moved(t, "success_purge"))
        /\ UNCHANGED cookies

\* del auth_state['password']; return True.  A KeyError when the key is gone
success_purge ==
    \E t \in Callers :
        /\ At(t, "success_purge")
        /\ IF "password" \in DOMAIN auth_state
           THEN auth_state' = DictDel(auth_state, "password") /\ Goes(t, Left(t, TRUE))
           ELSE UNCHANGED auth_state /\ Goes(t, Caught(t, KEY_ERROR_PASSWORD))
        /\ UNCHANGED cookies

\* auth_state['error'] = the message of the if/elif chain
failure_error ==
    \E t \in Callers :
        /\ At(t, "failure_error")
        /\ auth_state' = DictSet(auth_state, "error",
                                 FailureClassOf[call.frames[t].login_response[1]])
        /\ Goes(t, Moved(t, "failure_flag"))
        /\ UNCHANGED cookies

\* auth_state['logged_in'] = False
failure_flag ==
    \E t \in Callers :
        /\ At(t, "failure_flag")
        /\ auth_state' = DictSet(auth_state, "logged_in", FALSE)
        /\ Goes(t, Moved(t, "failure_purge"))
        /\ UNCHANGED cookies

\* del auth_state['password']; return False.  A KeyError when the key is gone
failure_purge ==
    \E t \in Callers :
        /\ At(t, "failure_purge")
        /\ IF "password" \in DOMAIN auth_state
           THEN auth_state' = DictDel(auth_state, "password") /\ Goes(t, Left(t, FALSE))
           ELSE UNCHANGED auth_state /\ Goes(t, Caught(t, KEY_ERROR_PASSWORD))
        /\ UNCHANGED cookies

\* except Exception as e: auth_state['error'] = f"Authentication error: {str(e)}"
except_error ==
    \E t \in Callers :
        /\ At(t, "except_error")
        /\ auth_state' = DictSet(auth_state, "error", ErrException(call.frames[t].exc))
        /\ Goes(t, Moved(t, "except_flag"))
        /\ UNCHANGED cookies

\* auth_state['logged_in'] = False, in the handler
except_flag ==
    \E t \in Callers :
        /\ At(t, "except_flag")
        /\ auth_state' = DictSet(auth_state, "logged_in", FALSE)
        /\ Goes(t, Moved(t, "except_check"))
        /\ UNCHANGED cookies

\* if 'password' in auth_state, in the handler; return False without the key
except_check ==
    \E t \in Callers :
        /\ At(t, "except_check")
        /\ Goes(t, IF "password" \in DOMAIN auth_state THEN Moved(t, "except_purge")
                   ELSE Left(t, FALSE))
        /\ UNCHANGED <<auth_state, cookies>>

\* del auth_state['password'] in the handler; return False.  A KeyError when
\* the key went after the test: it leaves authenticate
except_purge ==
    \E t \in Callers :
        /\ At(t, "except_purge")
        /\ IF "password" \in DOMAIN auth_state
           THEN auth_state' = DictDel(auth_state, "password") /\ Goes(t, Left(t, FALSE))
           ELSE UNCHANGED auth_state /\ Goes(t, Left(t, "raise"))
        /\ UNCHANGED cookies

NextConcurrent ==
    \/ post_request
    \/ set_username
    \/ set_password
    \/ set_error
    \/ check_credentials
    \/ no_credentials
    \/ read_username
    \/ read_password
    \/ get_login_page
    \/ no_csrf
    \/ post_login
    \/ success_flag
    \/ success_purge
    \/ failure_error
    \/ failure_flag
    \/ failure_purge
    \/ except_error
    \/ except_flag
    \/ except_check
    \/ except_purge

SpecConcurrent == InitConcurrent /\ [][NextConcurrent]_vars

----------------------------------------------------------------------------
(* Claims about two callers on the shared session *)

\* the login response of caller t landed on the authenticated area
LandedOnFeed(t) ==
    /\ call.frames[t].login_response # <<>>
    /\ LoginSucceeded(call.frames[t].login_response[1].url)

\* C29: with two callers running set_credentials and authenticate unserialised,
\* every authenticate() whose own login response lands on the authenticated
\* area returns True and leaves logged_in = True when it returns.
C29_SuccessfulLoginReported ==
    [][\A t \in Callers :
          (/\ LandedOnFeed(t)
           /\ call.frames[t].pc # "done"
           /\ call'.frames[t].pc = "done")
          => /\ call'.frames[t].ret = TRUE
             /\ auth_state'["logged_in"] = TRUE]_vars

\* C30: with two callers running set_credentials(u, p) and authenticate
\* unserialised, every authenticate() posts the username and the password that
\* its own caller's set_credentials stored.
C30_OwnCredentialsSubmitted ==
    \A t \in Callers :
        call.frames[t].login_data # <<>> =>
            /\ call.frames[t].login_data[1].session_key = call.frames[t].username
            /\ call.frames[t].login_data[1].session_password = call.frames[t].password

\* the username and the password posted were never stored together: a
\* username of one caller with the password of the other
C30_MixedPair ==
    \E t \in Callers :
        /\ call.frames[t].login_data # <<>>
        /\ [username |-> call.frames[t].login_data[1].session_key,
            password |-> call.frames[t].login_data[1].session_password]
               \notin CallerCredentials

\* a login that landed on the authenticated area and was reported as failed:
\* the caller left authenticate with False
C29_ReportedAsFailure ==
    \E t \in Callers :
        /\ LandedOnFeed(t)
        /\ call.frames[t].pc = "done"
        /\ call.frames[t].ret = FALSE

====
